---- MODULE Spec2Model ----
(***************************************************************************)
(* gslides-to-figma: the plugin's import pipeline (code.ts) as a state     *)
(* machine.  The font resolver loadFont is modelled attempt by attempt:    *)
(* every figma.loadFontAsync call is a suspension point whose outcome the  *)
(* host decides.                                                           *)
(***************************************************************************)
EXTENDS Integers, Sequences, FiniteSets, TLC

VARIABLES
    worker,     \* the OAuth worker: its KV store and the requests in progress,
                \* when the worker is studied
    geo,        \* the createElement call in progress, when the geometry of
                \* createElement is studied alone
    lf,         \* the loadFont call in progress (a call record), when loadFont
                \* is studied alone
    hostFonts,  \* what is known of the host's font set: font -> loadable?
    ui,         \* the messages the UI has still to send
    tasks,      \* the handler invocations, by task id
    running,    \* the task whose synchronous code runs, 0 if none
    closed,     \* figma.closePlugin() was called
    nodes,      \* every scene node created, by node id
    page,       \* figma.currentPage.children
    selection,  \* figma.currentPage.selection
    uiEvents,   \* the messages posted to the UI, in order
    console     \* console.error lines

vars == <<worker, geo, lf, hostFonts, ui, tasks, running, closed, nodes, page,
          selection, uiEvents, console>>

pluginVars == <<worker, geo, ui, tasks, running, closed, nodes, page, selection,
                uiEvents, console>>

-----------------------------------------------------------------------------
(* Numbers.  The plugin computes geometry with JavaScript numbers; a       *)
(* number is modelled as an exact fraction in lowest terms.  Rounding of    *)
(* floating-point results is not modelled.                                 *)

\* In the operators of this section each operand is bound to its value
\* before it is used (x \in {a}), so that an operand that is itself a long
\* expression is worked out once.

RECURSIVE GCD(_, _)
GCD(a, b) ==
    CHOOSE g \in { IF y = 0 THEN x ELSE GCD(y, x % y) : x \in {a}, y \in {b} } : TRUE

\* the number n / d, for d # 0
Rat(n, d) ==
    CHOOSE q \in
        { CHOOSE r \in { [ num |-> (IF y < 0 THEN -x ELSE x) \div g,
                           den |-> (IF y < 0 THEN -y ELSE y) \div g ] :
                         g \in { GCD(IF x < 0 THEN -x ELSE x, IF y < 0 THEN -y ELSE y) } } :
                TRUE :
          x \in {n}, y \in {d} } : TRUE

Num(n) == Rat(n, 1)

Plus(a, b) ==
    CHOOSE q \in { Rat(x.num * y.den + y.num * x.den, x.den * y.den) :
                    x \in {a}, y \in {b} } : TRUE
Minus(a, b) ==
    CHOOSE q \in { Rat(x.num * y.den - y.num * x.den, x.den * y.den) :
                    x \in {a}, y \in {b} } : TRUE
Times(a, b) ==
    CHOOSE q \in { Rat(x.num * y.num, x.den * y.den) : x \in {a}, y \in {b} } : TRUE
Over(a, b) ==
    CHOOSE q \in { Rat(x.num * y.den, x.den * y.num) : x \in {a}, y \in {b} } : TRUE
Less(a, b) == \E x \in {a}, y \in {b} : x.num * y.den < y.num * x.den

MathAbs(a) == CHOOSE q \in { Rat(IF x.num < 0 THEN -x.num ELSE x.num, x.den) : x \in {a} } : TRUE
MathMax(a, b) ==
    CHOOSE q \in { IF Less(x, y) THEN y ELSE x : x \in {a}, y \in {b} } : TRUE
MathMin(a, b) ==
    CHOOSE q \in { IF Less(y, x) THEN y ELSE x : x \in {a}, y \in {b} } : TRUE

\* no createElement call is studied
NoGeo == [ pc |-> "idle" ]

\* the worker is not studied
NoWorker == [ configured |-> FALSE, store |-> << >>, reqs |-> << >> ]

-----------------------------------------------------------------------------
(* Font families.  A family name is a string; the keywords of the two      *)
(* category regexes that occur in its lower-cased name are tabulated here. *)

RequestFamilies ==
    { "Roboto", "Helvetica", "Arial", "Inter", "Georgia", "Times New Roman",
      "Courier New", "Monaco", "Merriweather", "Noto Serif", "Comic Sans MS",
      "Roboto Mono" }

RequestWeights == { 400, 700, 800 }

FamilyKeywords(family) ==
    CASE family = "Georgia"         -> { "georgia" }
      [] family = "Times New Roman" -> { "times" }
      [] family = "Noto Serif"      -> { "serif" }
      [] family = "Courier New"     -> { "courier" }
      [] family = "Roboto Mono"     -> { "mono" }
      [] family = "Consolas"        -> { "consolas" }
      [] family = "Source Code Pro" -> { "code" }
      [] OTHER                      -> {}

FONT_FALLBACKS ==
    ("Arial" :> "Inter") @@ ("Helvetica" :> "Inter") @@ ("Roboto" :> "Inter") @@
    ("Open Sans" :> "Inter") @@ ("Lato" :> "Inter") @@ ("Montserrat" :> "Inter") @@
    ("Source Sans Pro" :> "Inter") @@ ("Nunito" :> "Inter") @@ ("Poppins" :> "Inter") @@
    ("Times New Roman" :> "Georgia") @@ ("Georgia" :> "Georgia") @@
    ("Playfair Display" :> "Georgia") @@ ("Merriweather" :> "Georgia") @@
    ("Lora" :> "Georgia") @@
    ("Courier New" :> "Roboto Mono") @@ ("Consolas" :> "Roboto Mono") @@
    ("Monaco" :> "Roboto Mono") @@ ("Source Code Pro" :> "Roboto Mono")

FontName(family, style) == [family |-> family, style |-> style]

-----------------------------------------------------------------------------
(* loadFont                                                                *)

\* StyleOf with the bold threshold off by one (fontWeight > 700)
StyleOf_StrictThreshold(fontWeight, isItalic) ==
    IF fontWeight > 700 /\ isItalic THEN "Bold Italic"
    ELSE IF fontWeight > 700 THEN "Bold"
    ELSE IF isItalic THEN "Italic"
    ELSE "Regular"

\* let style: the four-way choice on (fontWeight >= 700, isItalic)
StyleOf(fontWeight, isItalic) ==
    IF fontWeight >= 700 /\ isItalic THEN "Bold Italic"
    ELSE IF fontWeight >= 700 THEN "Bold"
    ELSE IF isItalic THEN "Italic"
    ELSE "Regular"

\* FallbackStyle that drops the weight together with the italic
FallbackStyle_Regular(fontWeight) == "Regular"

\* const fallbackStyle = fontWeight >= 700 ? 'Bold' : 'Regular'
FallbackStyle(fontWeight) == IF fontWeight >= 700 THEN "Bold" ELSE "Regular"

isSerif(fontFamily) ==
    FamilyKeywords(fontFamily) \cap
        { "serif", "georgia", "times", "garamond", "palatino" } # {}

isMono(fontFamily) ==
    FamilyKeywords(fontFamily) \cap { "mono", "courier", "consolas", "code" } # {}

fallbackList(fontFamily) ==
    IF isMono(fontFamily) THEN << "Roboto Mono", "Courier New" >>
    ELSE IF isSerif(fontFamily) THEN << "Georgia", "Times New Roman" >>
    ELSE << "Inter", "Roboto", "Arial" >>

\* FONT_FALLBACKS[fontFamily] is truthy
HasFallback(fontFamily) == fontFamily \in DOMAIN FONT_FALLBACKS

(* A call record: the arguments, the await the call is suspended at (pc,   *)
(* with idx the position in fallbackList for the two loop awaits), the     *)
(* settled attempts so far, and how the call ended.                        *)
\*   pc: "exact"          await at the exact font
\*       "exactNoItalic"  await at the same family without italic
\*       "mapped"         await at FONT_FALLBACKS[fontFamily], full style
\*       "mappedNoItalic" await at FONT_FALLBACKS[fontFamily] without italic
\*       "list"           await in the loop over fallbackList, full style
\*       "listNoItalic"   await in the loop over fallbackList without italic
\*       "inter"          await at Inter Regular
\*       "arial"          await at Arial Regular
LoadFontCall(fontFamily, fontWeight, isItalic) ==
    [ family |-> fontFamily, weight |-> fontWeight, italic |-> isItalic,
      pc |-> "exact", idx |-> 0, log |-> << >>,
      status |-> "running", result |-> FontName("", "") ]

\* no loadFont call is in progress
NoCall ==
    [ family |-> "", weight |-> 0, italic |-> FALSE, pc |-> "", idx |-> 0,
      log |-> << >>, status |-> "idle", result |-> FontName("", "") ]

\* the fontName object handed to figma.loadFontAsync at the call's await
AttemptFont(c) ==
    CASE c.pc = "exact" ->
            FontName(c.family, StyleOf(c.weight, c.italic))
      [] c.pc = "exactNoItalic" ->
            FontName(c.family, FallbackStyle(c.weight))
      [] c.pc = "mapped" ->
            FontName(FONT_FALLBACKS[c.family], StyleOf(c.weight, c.italic))
      [] c.pc = "mappedNoItalic" ->
            FontName(FONT_FALLBACKS[c.family], FallbackStyle(c.weight))
      [] c.pc = "list" ->
            FontName(fallbackList(c.family)[c.idx], StyleOf(c.weight, c.italic))
      [] c.pc = "listNoItalic" ->
            FontName(fallbackList(c.family)[c.idx], FallbackStyle(c.weight))
      [] c.pc = "inter" -> FontName("Inter", "Regular")
      [] c.pc = "arial" -> FontName("Arial", "Regular")

\* AfterExact with the category list tried before the mapped family
AfterExact_ListFirst(c) == [pc |-> "list", idx |-> 1]

\* where control goes once the exact-family try/catch is left without a return
AfterExact(c) ==
    IF HasFallback(c.family) THEN [pc |-> "mapped", idx |-> 0]
    ELSE [pc |-> "list", idx |-> 1]

\* `continue` in the loop over fallbackList: the next candidate, or the loop's exit
NextCandidate(c) ==
    IF c.idx < Len(fallbackList(c.family)) THEN [pc |-> "list", idx |-> c.idx + 1]
    ELSE [pc |-> "inter", idx |-> 0]

\* OnReject with the Inter Regular await outside any try: its rejection escapes
OnReject_InterUncaught(c) ==
    CASE c.pc = "exact" ->
            IF c.italic THEN [pc |-> "exactNoItalic", idx |-> 0] ELSE AfterExact(c)
      [] c.pc = "exactNoItalic" -> AfterExact(c)
      [] c.pc = "mapped" ->
            IF c.italic THEN [pc |-> "mappedNoItalic", idx |-> 0]
            ELSE [pc |-> "list", idx |-> 1]
      [] c.pc = "mappedNoItalic" -> [pc |-> "list", idx |-> 1]
      [] c.pc = "list" ->
            IF c.italic THEN [pc |-> "listNoItalic", idx |-> c.idx]
            ELSE NextCandidate(c)
      [] c.pc = "listNoItalic" -> NextCandidate(c)
      [] c.pc = "inter" -> [pc |-> "throw", idx |-> 0]
      [] c.pc = "arial" -> [pc |-> "throw", idx |-> 0]

\* OnReject with the `if (isItalic)` guards left out: the weight-only retry
\* is made for every request
OnReject_AlwaysRetry(c) ==
    CASE c.pc = "exact" -> [pc |-> "exactNoItalic", idx |-> 0]
      [] c.pc = "exactNoItalic" -> AfterExact(c)
      [] c.pc = "mapped" -> [pc |-> "mappedNoItalic", idx |-> 0]
      [] c.pc = "mappedNoItalic" -> [pc |-> "list", idx |-> 1]
      [] c.pc = "list" -> [pc |-> "listNoItalic", idx |-> c.idx]
      [] c.pc = "listNoItalic" -> NextCandidate(c)
      [] c.pc = "inter" -> [pc |-> "arial", idx |-> 0]
      [] c.pc = "arial" -> [pc |-> "throw", idx |-> 0]

\* the catch block entered when the await at c.pc rejects: the next await,
\* or "throw" where no catch encloses the await
OnReject(c) ==
    CASE c.pc = "exact" ->
            IF c.italic THEN [pc |-> "exactNoItalic", idx |-> 0] ELSE AfterExact(c)
      [] c.pc = "exactNoItalic" -> AfterExact(c)
      [] c.pc = "mapped" ->
            IF c.italic THEN [pc |-> "mappedNoItalic", idx |-> 0]
            ELSE [pc |-> "list", idx |-> 1]
      [] c.pc = "mappedNoItalic" -> [pc |-> "list", idx |-> 1]
      [] c.pc = "list" ->
            IF c.italic THEN [pc |-> "listNoItalic", idx |-> c.idx]
            ELSE NextCandidate(c)
      [] c.pc = "listNoItalic" -> NextCandidate(c)
      [] c.pc = "inter" -> [pc |-> "arial", idx |-> 0]
      [] c.pc = "arial" -> [pc |-> "throw", idx |-> 0]

\* ReturnedFont building the returned object anew from the request
ReturnedFont_Requested(c) ==
    IF c.pc \in {"inter", "arial"} THEN AttemptFont(c)
    ELSE FontName(AttemptFont(c).family, StyleOf(c.weight, c.italic))

\* `return fontName` after the await at c.pc resolved
ReturnedFont(c) == AttemptFont(c)

\* the call after the pending figma.loadFontAsync settled
Settle(c, ok) ==
    LET entry  == [step |-> c.pc, idx |-> c.idx, font |-> AttemptFont(c), ok |-> ok]
        logged == [c EXCEPT !.log = Append(@, entry)]
        next   == OnReject(c)
    IN  IF ok THEN [logged EXCEPT !.status = "returned", !.result = ReturnedFont(c)]
        ELSE IF next.pc = "throw" THEN [logged EXCEPT !.status = "thrown"]
        ELSE [logged EXCEPT !.pc = next.pc, !.idx = next.idx]

-----------------------------------------------------------------------------
(* The host: figma.loadFontAsync resolves for the fonts of the host's font *)
(* set and rejects for the others.  The set is fixed but arbitrary: a      *)
(* font's membership is decided at its first load and remembered.          *)

HostAllows(font, ok) == font \in DOMAIN hostFonts => hostFonts[font] = ok

HostLearn(font, ok) == (font :> ok) @@ hostFonts

-----------------------------------------------------------------------------
(* Specification SpecFont: one loadFont call, for every request and host.  *)

InitFont ==
    /\ \E family \in RequestFamilies, weight \in RequestWeights, italic \in BOOLEAN :
            lf = LoadFontCall(family, weight, italic)
    /\ geo = NoGeo
    /\ hostFonts = << >>
    /\ worker = NoWorker
    /\ ui = << >>
    /\ tasks = << >>
    /\ running = 0
    /\ closed = FALSE
    /\ nodes = << >>
    /\ page = << >>
    /\ selection = << >>
    /\ uiEvents = << >>
    /\ console = << >>

\* the pending load resolves
LoadResolves ==
    /\ lf.status = "running"
    /\ HostAllows(AttemptFont(lf), TRUE)
    /\ lf' = Settle(lf, TRUE)
    /\ hostFonts' = HostLearn(AttemptFont(lf), TRUE)
    /\ UNCHANGED pluginVars

\* the pending load rejects
LoadRejects ==
    /\ lf.status = "running"
    /\ HostAllows(AttemptFont(lf), FALSE)
    /\ lf' = Settle(lf, FALSE)
    /\ hostFonts' = HostLearn(AttemptFont(lf), FALSE)
    /\ UNCHANGED pluginVars

NextFont == LoadResolves \/ LoadRejects

SpecFont == InitFont /\ [][NextFont]_vars

\* every host load attempt settles
SpecFontFair == SpecFont /\ WF_vars(NextFont)

-----------------------------------------------------------------------------
(* Input data: the message the UI sends.  A string that the code measures  *)
(* or trims is a sequence of characters.                                   *)

\* a ColorRGB, the channels in tenths
ColorRGB(r, g, b) == [ r |-> Rat(r, 10), g |-> Rat(g, 10), b |-> Rat(b, 10) ]

\* a TextRun; where nothing else is said it is black and undecorated
TextRun(text, fontFamily, fontWeight, fontStyle) ==
    [ text |-> text, fontFamily |-> fontFamily, fontWeight |-> fontWeight,
      fontStyle |-> fontStyle, color |-> ColorRGB(0, 0, 0),
      underline |-> FALSE, strikethrough |-> FALSE ]

\* a SlideElement; corrupt: one of its properties has a value the host
\* rejects (the setter throws before the node is appended); rowCount and
\* columnCount 0: not given.  Where nothing else is said an element stands
\* at (10, 20) and measures 300 x 90, unscaled.
SlideElement(type, corrupt, runs, children, imageUrl, rows) ==
    [ type |-> type, corrupt |-> corrupt, runs |-> runs, children |-> children,
      imageUrl |-> imageUrl, rows |-> rows, rowCount |-> 0, columnCount |-> 0,
      x |-> Num(10), y |-> Num(20), width |-> Num(300), height |-> Num(90),
      scaleX |-> Num(1), scaleY |-> Num(1) ]

\* the element placed at (x, y)
PlacedAt(element, x, y) == [element EXCEPT !.x = Num(x), !.y = Num(y)]

ShapeEl(corrupt, runs) == SlideElement("shape", corrupt, runs, << >>, "", << >>)
LineEl(corrupt)        == SlideElement("line", corrupt, << >>, << >>, "", << >>)
ImageEl(imageUrl)      == SlideElement("image", FALSE, << >>, << >>, imageUrl, << >>)
TableEl(rows)          == SlideElement("table", FALSE, << >>, << >>, "", rows)
GroupEl(children)      == SlideElement("group", FALSE, << >>, children, "", << >>)

\* an underlined run
RunHi    == [ TextRun(<< "H", "i" >>, "Inter", 400, "normal") EXCEPT !.underline = TRUE ]
\* a run both underlined and struck through
RunBang  == [ TextRun(<< "!" >>, "Inter", 400, "italic")
                EXCEPT !.underline = TRUE, !.strikethrough = TRUE ]
RunEmpty == TextRun(<< >>, "Inter", 400, "normal")
RunSpace == TextRun(<< " " >>, "Inter", 400, "normal")
\* an underlined run whose color the host rejects: a channel above 1
RunBad   == [ TextRun(<< "?", "?" >>, "Inter", 400, "normal")
                EXCEPT !.color = ColorRGB(20, 0, 0), !.underline = TRUE ]

\* the slides the presentations of the model are made of
Slides ==
    { << >>,
      << ShapeEl(TRUE, << >>), ShapeEl(FALSE, << >>), LineEl(FALSE) >>,
      << ShapeEl(FALSE, << RunEmpty, RunHi, RunBad, RunEmpty, RunBang >>),
         ShapeEl(FALSE, << RunSpace >>),
         TableEl(<< << << "x" >>, << " " >> >> >>) >>,
      << GroupEl(<< ShapeEl(FALSE, << >>),
                    GroupEl(<< LineEl(TRUE), ShapeEl(FALSE, << >>) >>),
                    ShapeEl(FALSE, << >>) >>),
         GroupEl(<< GroupEl(<< >>), ShapeEl(FALSE, << >>) >>),
         ImageEl("a.png"), ImageEl("gone.png"), ImageEl("bad.png"), ImageEl(""),
         ImageEl("undecodable.png"), ImageEl("empty.png"),
         TableEl(<< >>) >> }

\* the image-data mapping of the message: key -> string, in the parts the
\* regex of createImage looks for; the payload is the rest of the string.
\* "a.png" is a data URI, "bad.png" the string 'oops', "undecodable.png" a
\* data URI whose payload is not base64, "empty.png" the empty string.
ImageData ==
    ("a.png" :> [scheme |-> "data:", mime |-> "image/png", enc |-> ";base64,",
                 payload |-> << "i", "V", "B", "O", "R", "w", "0", "K", "G", "g", "o", "=" >>]) @@
    ("bad.png" :> [scheme |-> "", mime |-> "", enc |-> "",
                   payload |-> << "o", "o", "p", "s" >>]) @@
    ("undecodable.png" :> [scheme |-> "data:", mime |-> "image/png", enc |-> ";base64,",
                           payload |-> << "%", "%", "%", "%" >>]) @@
    ("empty.png" :> [scheme |-> "", mime |-> "", enc |-> "", payload |-> << >>])

MaxSlides == 2

RECURSIVE SeqsUpTo(_, _)
SeqsUpTo(S, n) ==
    IF n = 0 THEN { << >> }
    ELSE LET shorter == SeqsUpTo(S, n - 1)
         IN  shorter \cup { Append(s, x) : s \in shorter, x \in S }

\* a presentation; its pageSize gives no magnitudes (0: not given)
Presentation(slides) ==
    [ pageSize |-> [ width |-> 0, height |-> 0 ],
      slides |-> [ k \in 1..Len(slides) |-> [index |-> k - 1, elements |-> slides[k]] ] ]

\* const emuToPixels = (emu) => (emu || 0) / 914400 * 72
emuToPixels(emu) == Times(Over(Num(emu), Num(914400)), Num(72))

\* importPresentation's scale: the page fitted into 1920 x 1080
FitScale(presentation) ==
    LET orDefault(magnitude, default) == IF magnitude = 0 THEN default ELSE magnitude
        originalWidth  == emuToPixels(orDefault(presentation.pageSize.width, 9144000))
        originalHeight == emuToPixels(orDefault(presentation.pageSize.height, 5143500))
        scaleX == Over(Num(1920), originalWidth)
        scaleY == Over(Num(1080), originalHeight)
    IN  MathMin(scaleX, scaleY)

Presentations == { Presentation(s) : s \in SeqsUpTo(Slides, MaxSlides) }

ImportMessage(presentation) ==
    [ type |-> "import-slides", presentation |-> presentation, imageData |-> ImageData ]

-----------------------------------------------------------------------------
(* Strings                                                                 *)

\* runs.map(r => r.text).join('')
RECURSIVE JoinRuns(_)
JoinRuns(runs) ==
    IF runs = << >> THEN << >> ELSE Head(runs).text \o JoinRuns(Tail(runs))

\* String.prototype.trim
RECURSIVE TrimStart(_)
TrimStart(s) ==
    IF s # << >> /\ Head(s) = " " THEN TrimStart(Tail(s)) ELSE s

RECURSIVE TrimEnd(_)
TrimEnd(s) ==
    IF s # << >> /\ s[Len(s)] = " " THEN TrimEnd(SubSeq(s, 1, Len(s) - 1)) ELSE s

\* Trim that removes nothing
Trim_None(s) == s

Trim(s) == TrimEnd(TrimStart(s))

-----------------------------------------------------------------------------
(* createElement's geometry: the box it computes for an element, the       *)
(* element createGroup makes of a child, the cells createTable lays out.   *)

\* EffectiveSize with the floor applied before the factors
EffectiveSize_ClampFirst(raw, factor, scale) ==
    Times(Times(MathMax(Num(1), raw), MathAbs(factor)), scale)

\* EffectiveSize without Math.abs
EffectiveSize_NoAbs(raw, factor, scale) ==
    MathMax(Num(1), Times(Times(raw, factor), scale))

\* Math.max(1, element.width * Math.abs(element.scaleX) * scale)
EffectiveSize(raw, factor, scale) ==
    MathMax(Num(1), Times(Times(raw, MathAbs(factor)), scale))

\* createElement's width, height, x and y
Geometry(element, scale) ==
    CHOOSE g \in
        { [ x      |-> Times(e.x, s),
            y      |-> Times(e.y, s),
            width  |-> EffectiveSize(e.width, e.scaleX, s),
            height |-> EffectiveSize(e.height, e.scaleY, s) ] :
          e \in {element}, s \in {scale} } : TRUE

\* ChildElement that adds the group's scaled position as it is
ChildElement_NoUndo(child, x, y, scale) ==
    [child EXCEPT !.x = Plus(x, child.x), !.y = Plus(y, child.y)]

\* createGroup's childElement: { ...child, x: x / scale + child.x, y: ... }
ChildElement(child, x, y, scale) ==
    [child EXCEPT !.x = Plus(Over(x, scale), child.x),
                  !.y = Plus(Over(y, scale), child.y)]

\* CellBox with the two grid dimensions taken for each other
CellBox_Swapped(width, height, rowCount, colCount, row, col) ==
    CHOOSE box \in
        { [ x |-> Times(Num(col), cellWidth), y |-> Times(Num(row), cellHeight),
            width |-> cellWidth, height |-> cellHeight ] :
          cellWidth  \in { Over(width, Num(rowCount)) },
          cellHeight \in { Over(height, Num(colCount)) } } : TRUE

\* createTable's cell rectangle of (row, col): cell.x, cell.y and cell.resize
CellBox(width, height, rowCount, colCount, row, col) ==
    CHOOSE box \in
        { [ x |-> Times(Num(col), cellWidth), y |-> Times(Num(row), cellHeight),
            width |-> cellWidth, height |-> cellHeight ] :
          cellWidth  \in { Over(width, Num(colCount)) },
          cellHeight \in { Over(height, Num(rowCount)) } } : TRUE

\* rows[0]?.length || 0
ColCount(rows) == IF Len(rows) = 0 THEN 0 ELSE Len(rows[1])

\* the cell rectangles of createTable's two loops, row by row
TableCellBoxes(rows, width, height) ==
    LET rowCount == Len(rows)
        colCount == ColCount(rows)
    IN  IF rowCount = 0 \/ colCount = 0 THEN << >>
        ELSE [ n \in 1..(rowCount * colCount) |->
                 CellBox(width, height, rowCount, colCount,
                         (n - 1) \div colCount, (n - 1) % colCount) ]

\* rows[row]?.[col] || ''
CellText(rows, row, col) ==
    IF row + 1 <= Len(rows) /\ col + 1 <= Len(rows[row + 1])
    THEN rows[row + 1][col + 1] ELSE << >>

\* textNode.resize(cellWidth - padding * 2, cellHeight - padding * 2) at
\* (col * cellWidth + padding, row * cellHeight + padding)
CellTextBox(box, padding) ==
    [ x |-> Plus(box.x, padding), y |-> Plus(box.y, padding),
      width  |-> Minus(box.width, Times(padding, Num(2))),
      height |-> Minus(box.height, Times(padding, Num(2))) ]

\* the boxes of the cell texts createTable makes, row by row: one for each
\* cell whose text is not blank
TableTextBoxes(rows, width, height, scale) ==
    LET colCount == ColCount(rows)
        cells    == TableCellBoxes(rows, width, height)
        texted   == SelectSeq([ n \in 1..Len(cells) |-> n ],
                              LAMBDA n : Trim(CellText(rows, (n - 1) \div colCount,
                                                       (n - 1) % colCount)) # << >>)
    IN  [ j \in 1..Len(texted) |-> CellTextBox(cells[texted[j]], Times(Num(4), scale)) ]

(* The calls createElement makes for an element, in order: for each        *)
(* element reached, its kind, the x, y, width and height createElement     *)
(* computed for it and, for a table, its cell rectangles and the boxes of  *)
(* its cell texts; createGroup calls createElement for each child in turn. *)
RECURSIVE ElementCalls(_, _, _)
RECURSIVE GroupCalls(_, _, _, _, _)

ElementCalls(element, scale, path) ==
    LET g    == Geometry(element, scale)
        call == [ type |-> element.type, path |-> path,
                  x |-> g.x, y |-> g.y, width |-> g.width, height |-> g.height,
                  cells |-> IF element.type = "table"
                            THEN TableCellBoxes(element.rows, g.width, g.height)
                            ELSE << >>,
                  cellTexts |-> IF element.type = "table"
                                THEN TableTextBoxes(element.rows, g.width, g.height,
                                                    scale)
                                ELSE << >> ]
    IN  IF element.type = "group"
        THEN << call >> \o GroupCalls(element.children, 1, g, scale, path)
        ELSE << call >>

GroupCalls(children, k, g, scale, path) ==
    IF k > Len(children) THEN << >>
    ELSE ElementCalls(ChildElement(children[k], g.x, g.y, scale), scale,
                      Append(path, k))
            \o GroupCalls(children, k + 1, g, scale, path)

-----------------------------------------------------------------------------
(* Specification SpecGeom: one call of createElement, for elements of      *)
(* every kind with sizes and scale factors of either sign, tables of every *)
(* grid up to MaxRows x MaxCols with and without declared counts, groups   *)
(* nested up to MaxDepth deep, and several fit scales.                     *)

MaxDepth == 2
MaxRows == 2
MaxCols == 3

Lengths   == { Num(-2), Num(0), Rat(1, 2), Num(30) }
Factors   == { Num(-2), Num(0), Num(1) }
Origins   == { << 100, 50 >>, << 0, 0 >>, << -7, 3 >> }
Locals    == { << 10, 10 >>, << -3, 0 >> }
FitScales == { Num(1), Rat(8, 3), Rat(1, 2) }

\* a grid of rowCount rows of colCount cells
Grid(rowCount, colCount) ==
    [ r \in 1..rowCount |-> [ c \in 1..colCount |-> << "x" >> ] ]

\* elements of every kind, of every size and pair of scale factors
SizedElements ==
    { [e EXCEPT !.width = w, !.height = h, !.scaleX = sx, !.scaleY = sy] :
        e \in { ShapeEl(FALSE, << >>), ImageEl("a.png"), LineEl(FALSE),
                TableEl(Grid(1, 1)), GroupEl(<< LineEl(FALSE) >>) },
        w \in Lengths, h \in Lengths, sx \in Factors, sy \in Factors }

\* tables of every grid; the declared counts are absent, right or wrong
TableElements ==
    { [TableEl(Grid(r, c)) EXCEPT !.rowCount = d[1], !.columnCount = d[2]] :
        r \in 1..MaxRows, c \in 1..MaxCols,
        d \in { << 0, 0 >>, << 1, 1 >>, << 2, 3 >>, << 3, 2 >> } }

\* a leaf, or groups around it, nested depth deep; a group holds the nested
\* element and after it a line
RECURSIVE Nested(_)
Nested(depth) ==
    IF depth = 0
    THEN { PlacedAt(ShapeEl(FALSE, << >>), c[1], c[2]) : c \in Locals }
    ELSE { PlacedAt(GroupEl(<< inner, PlacedAt(LineEl(FALSE), 1, 2) >>), o[1], o[2]) :
             inner \in Nested(depth - 1), o \in Origins }

GroupElements == UNION { Nested(depth) : depth \in 1..MaxDepth }

InitGeom ==
    /\ \E element \in SizedElements \cup TableElements \cup GroupElements,
          scale \in FitScales :
            geo = [ pc |-> "call", element |-> element, scale |-> scale,
                    out |-> << >> ]
    /\ lf = NoCall
    /\ hostFonts = << >>
    /\ worker = NoWorker
    /\ ui = << >>
    /\ tasks = << >>
    /\ running = 0
    /\ closed = FALSE
    /\ nodes = << >>
    /\ page = << >>
    /\ selection = << >>
    /\ uiEvents = << >>
    /\ console = << >>

\* createElement runs to its end
CreateElementReturns ==
    /\ geo.pc = "call"
    /\ geo' = [geo EXCEPT !.pc = "returned",
                          !.out = ElementCalls(geo.element, geo.scale, << 1 >>)]
    /\ UNCHANGED <<worker, lf, hostFonts, ui, tasks, running, closed, nodes, page,
                   selection, uiEvents, console>>

NextGeom == CreateElementReturns

SpecGeom == InitGeom /\ [][NextGeom]_vars

-----------------------------------------------------------------------------
(* The host document and the plugin's tasks.                               *)
(*                                                                         *)
(* A task is one invocation of figma.ui.onmessage for an import-slides     *)
(* message.  JavaScript runs a task until it suspends at an await of       *)
(* figma.loadFontAsync or ends: `running` is the task whose synchronous    *)
(* code is executing, 0 when the plugin is idle.  The fields task, slide   *)
(* and top of nodes, events and console lines record where they come from. *)

\* a scene node as figma.createX() returns it; path: where in the slide the
\* element stands during whose materialization it was created (the positions
\* in the loops of createElements and of the enclosing createGroups; empty for
\* the slide's frame), top: the top-level element of that path (0: the frame)
Node(type, name, task, slide, path) ==
    [ type |-> type, name |-> name, task |-> task, slide |-> slide,
      top |-> IF path = << >> THEN 0 ELSE path[1], path |-> path,
      children |-> << >>, characters |-> << >>, fontName |-> FontName("", ""),
      ranges |-> << >>, fill |-> [ type |-> "DEFAULT" ],
      box |-> [ x |-> Num(0), y |-> Num(0), width |-> Num(100), height |-> Num(100) ] ]

\* a fills entry { type: 'SOLID', color: { r, g, b } }, the channels in tenths
SolidFill(r, g, b) == [ type |-> "SOLID", color |-> ColorRGB(r, g, b) ]

\* the host accepts the color: every channel lies in [0, 1]
ValidColor(color) ==
    \A channel \in { color.r, color.g, color.b } :
        ~Less(channel, Num(0)) /\ ~Less(Num(1), channel)

\* a fills entry { type: 'IMAGE', imageHash, scaleMode: 'FILL' }
ImageFill(payload) == [ type |-> "IMAGE", image |-> payload, scaleMode |-> "FILL" ]

\* node.x, node.y and node.resize(width, height)
Boxed(node, box) == [node EXCEPT !.box = box]

\* AppendChild that puts the child below its siblings instead of on top
AppendChild_Front(ns, parent, child) == [ns EXCEPT ![parent].children = <<child>> \o @]

\* parent.appendChild(child)
AppendChild(ns, parent, child) == [ns EXCEPT ![parent].children = Append(@, child)]

\* the handler's frame once importPresentation is past the zero-slides check
\*   stack: per loop over elements its elements (for a createGroup, the
\*          childElement made of each child) and the position k in it
\*   pc: "slide"     at the head of the loop over slides
\*       "elements"  at the head of a loop over elements (stack: the loops of
\*                   createElements and, above it, of the enclosing createGroups)
\*       "font"      suspended in loadFont at figma.loadFontAsync
\*       "resume"    loadFont has returned or thrown to the awaiting caller
\*       "runs"      at the head of the loop over runs in createTextForShape
\*       "done"      the handler has ended
\*   r, charIndex: the run and the offset of createTextForShape's loop
\*   spans: the startIndex and endIndex the loop has computed so far
\* NewTask with the slide counter kept across imports instead of `let i = 0`
NewTask_SharedCounter(id, msg) ==
    [ id |-> id, presentation |-> msg.presentation, imageData |-> msg.imageData,
      scale |-> FitScale(msg.presentation),
      pc |-> "slide", i |-> id - 1, frame |-> 0, stack |-> << >>,
      createdFrames |-> << >>, node |-> 0, r |-> 0, charIndex |-> 0,
      spans |-> << >>, await |-> "", font |-> NoCall ]

NewTask(id, msg) ==
    [ id |-> id, presentation |-> msg.presentation, imageData |-> msg.imageData,
      scale |-> FitScale(msg.presentation),
      pc |-> "slide", i |-> 0, frame |-> 0, stack |-> << >>,
      createdFrames |-> << >>, node |-> 0, r |-> 0, charIndex |-> 0,
      spans |-> << >>, await |-> "", font |-> NoCall ]

Top(tk) == tk.stack[Len(tk.stack)]

\* the position of the element being materialized: its index in each loop
PathOf(tk) == [ d \in 1..Len(tk.stack) |-> tk.stack[d].k ]

\* the element createElement was called with
CurrentElement(tk) == Top(tk).els[Top(tk).k]

\* createElement returned normally: the enclosing loop goes on
Advance(tk) ==
    [tk EXCEPT !.stack[Len(tk.stack)].k = @ + 1, !.pc = "elements",
               !.await = "", !.node = 0, !.r = 0, !.charIndex = 0,
               !.spans = << >>]

\* Percent with i / totalSlides taken as an integer division
Percent_IntDiv(i, totalSlides) ==
    [num |-> 60 + (i \div totalSlides) * 35, den |-> 1]

\* percent: 60 + (i / totalSlides) * 35, as the fraction num / den
Percent(i, totalSlides) ==
    [num |-> 60 * totalSlides + i * 35, den |-> totalSlides]

NoPercent == [num |-> 0, den |-> 1]

ProgressEvent(id, i, totalSlides) ==
    [ type |-> "progress", task |-> id, percent |-> Percent(i, totalSlides),
      slideCount |-> 0, text |-> <<"Creating slide", i + 1, "of", totalSlides>> ]

CompleteEvent(id, totalSlides) ==
    [ type |-> "complete", task |-> id, percent |-> NoPercent,
      slideCount |-> totalSlides, text |-> << >> ]

ErrorEvent(id, message) ==
    [ type |-> "error", task |-> id, percent |-> NoPercent, slideCount |-> 0,
      text |-> <<message>> ]

ConsoleLine(tk, message) ==
    [ task |-> tk.id, slide |-> tk.i, top |-> tk.stack[1].k, message |-> message ]

\* HandlerCatch with an empty catch block: the exception is swallowed
HandlerCatch_Silent(tk) ==
    [ task |-> [tk EXCEPT !.pc = "done"], log |-> << >>, events |-> << >> ]

\* figma.ui.onmessage's catch: whatever importPresentation throws becomes an
\* error event and the handler ends
HandlerCatch(tk) ==
    [ task   |-> [tk EXCEPT !.pc = "done"],
      log    |-> << >>,
      events |-> << ErrorEvent(tk.id, "Failed to import slides") >> ]

\* createElements without its try: the exception leaves importPresentation
CreateElementsCatch_Rethrow(tk) == HandlerCatch(tk)

\* createElements' catch: logs, and its loop (the bottom of the stack) goes
\* on with the next top-level element; the loops of enclosing createGroups
\* are abandoned
CreateElementsCatch(tk) ==
    [ task   |-> [tk EXCEPT !.stack = << [els |-> tk.stack[1].els,
                                          k |-> tk.stack[1].k + 1] >>,
                            !.pc = "elements", !.await = "", !.node = 0,
                            !.r = 0, !.charIndex = 0, !.spans = << >>],
      log    |-> << ConsoleLine(tk, "Failed to create element:") >>,
      events |-> << >> ]

\* what a step of task t leaves behind
Commit(t, tk, ns, logs, evs) ==
    /\ tasks' = [tasks EXCEPT ![t] = tk]
    /\ nodes' = ns
    /\ console' = console \o logs
    /\ uiEvents' = uiEvents \o evs
    /\ running' = IF tk.pc \in {"done", "font"} THEN 0 ELSE t

\* a step that ends in an exception thrown out of createElement
Throw(t, tk, ns) ==
    LET out == CreateElementsCatch(tk)
    IN  Commit(t, out.task, ns, out.log, out.events)

AtElement(t, type) ==
    /\ running = t
    /\ tasks[t].pc = "elements"
    /\ Top(tasks[t]).k <= Len(Top(tasks[t]).els)
    /\ CurrentElement(tasks[t]).type = type

-----------------------------------------------------------------------------
(* figma.ui.onmessage and importPresentation                               *)

\* OnMessage without importPresentation's `if (totalSlides === 0)` return
OnMessage_NoZeroCheck ==
    /\ ui # << >>
    /\ running = 0
    /\ ~closed
    /\ ui' = Tail(ui)
    /\ LET msg == Head(ui)
           id  == Len(tasks) + 1
       IN  CASE msg.type = "import-slides" ->
                    /\ tasks' = Append(tasks, NewTask(id, msg))
                    /\ running' = id
                    /\ UNCHANGED <<uiEvents, closed>>
             [] msg.type = "cancel" ->
                    /\ closed' = TRUE
                    /\ UNCHANGED <<tasks, running, uiEvents>>
             [] OTHER -> UNCHANGED <<tasks, running, uiEvents, closed>>
    /\ UNCHANGED <<worker, geo, lf, hostFonts, nodes, page, selection, console>>

\* the UI's next message is delivered: the handler up to the loop over slides
OnMessage ==
    /\ ui # << >>
    /\ running = 0
    /\ ~closed
    /\ ui' = Tail(ui)
    /\ LET msg == Head(ui)
           id  == Len(tasks) + 1
       IN  CASE msg.type = "import-slides" ->
                    IF Len(msg.presentation.slides) = 0
                    THEN /\ tasks' = Append(tasks, [NewTask(id, msg) EXCEPT !.pc = "done"])
                         /\ uiEvents' = Append(uiEvents,
                                ErrorEvent(id, "No slides found in presentation"))
                         /\ UNCHANGED <<running, closed>>
                    ELSE /\ tasks' = Append(tasks, NewTask(id, msg))
                         /\ running' = id
                         /\ UNCHANGED <<uiEvents, closed>>
             [] msg.type = "cancel" ->
                    /\ closed' = TRUE
                    /\ UNCHANGED <<tasks, running, uiEvents>>
             [] OTHER -> UNCHANGED <<tasks, running, uiEvents, closed>>
    /\ UNCHANGED <<worker, geo, lf, hostFonts, nodes, page, selection, console>>

\* one pass of the loop over slides up to the call of createElements
ImportSlide(t) ==
    /\ running = t
    /\ tasks[t].pc = "slide"
    /\ tasks[t].i < Len(tasks[t].presentation.slides)
    /\ LET tk    == tasks[t]
           slide == tk.presentation.slides[tk.i + 1]
           frame == Boxed(Node("FRAME", <<"Slide", tk.i + 1>>, t, tk.i, << >>),
                          [ x |-> Num(tk.i * (1920 + 100)), y |-> Num(0),
                            width |-> Num(1920), height |-> Num(1080) ])
       IN  Commit(t,
                  [tk EXCEPT !.pc = "elements", !.frame = Len(nodes) + 1,
                             !.stack = << [els |-> slide.elements, k |-> 1] >>],
                  Append(nodes, [frame EXCEPT !.fill = SolidFill(10, 10, 10)]),
                  << >>,
                  << ProgressEvent(t, tk.i, Len(tk.presentation.slides)) >>)
    /\ UNCHANGED <<worker, geo, lf, hostFonts, ui, closed, page, selection>>

\* SlideEnd that appends a frame only if something was put into it
SlideEnd_SkipEmpty(t) ==
    /\ running = t
    /\ tasks[t].pc = "elements"
    /\ Len(tasks[t].stack) = 1
    /\ Top(tasks[t]).k > Len(Top(tasks[t]).els)
    /\ LET tk == tasks[t]
       IN  /\ page' = IF nodes[tk.frame].children = << >> THEN page
                      ELSE Append(page, tk.frame)
           /\ Commit(t,
                     [tk EXCEPT !.pc = "slide", !.i = @ + 1, !.stack = << >>,
                                !.createdFrames = Append(@, tk.frame)],
                     nodes, << >>, << >>)
    /\ UNCHANGED <<worker, geo, lf, hostFonts, ui, closed, selection>>

\* createElements returned: the slide's frame goes onto the page
SlideEnd(t) ==
    /\ running = t
    /\ tasks[t].pc = "elements"
    /\ Len(tasks[t].stack) = 1
    /\ Top(tasks[t]).k > Len(Top(tasks[t]).els)
    /\ LET tk == tasks[t]
       IN  /\ page' = Append(page, tk.frame)
           /\ Commit(t,
                     [tk EXCEPT !.pc = "slide", !.i = @ + 1, !.stack = << >>,
                                !.createdFrames = Append(@, tk.frame)],
                     nodes, << >>, << >>)
    /\ UNCHANGED <<worker, geo, lf, hostFonts, ui, closed, selection>>

\* the loop over slides is over: selection, viewport and the complete event
ImportFinish(t) ==
    /\ running = t
    /\ tasks[t].pc = "slide"
    /\ tasks[t].i >= Len(tasks[t].presentation.slides)
    /\ LET tk == tasks[t]
       IN  /\ selection' = tk.createdFrames
           /\ Commit(t, [tk EXCEPT !.pc = "done"], nodes, << >>,
                     << CompleteEvent(t, Len(tk.presentation.slides)) >>)
    /\ UNCHANGED <<worker, geo, lf, hostFonts, ui, closed, page>>

-----------------------------------------------------------------------------
(* createElement and the materializers.  Every node is appended to the     *)
(* slide's frame: createGroup passes its own parent on.                    *)

\* createShape, and createTextForShape up to its first loadFont
CreateShape(t) ==
    /\ AtElement(t, "shape")
    /\ LET tk       == tasks[t]
           el       == CurrentElement(tk)
           id       == Len(nodes) + 1
           created  == Append(nodes, Boxed(Node("RECTANGLE", <<"Rectangle">>, t, tk.i,
                                                PathOf(tk)),
                                           Geometry(el, tk.scale)))
           appended == AppendChild(created, tk.frame, id)
           fullText == JoinRuns(el.runs)
           firstRun == el.runs[1]
       IN  IF el.corrupt
           THEN Throw(t, tk, created)
           ELSE IF Len(el.runs) > 0 /\ Trim(fullText) # << >>
           THEN Commit(t,
                       [tk EXCEPT !.pc = "font", !.await = "defaultFont",
                                  !.node = id + 1,
                                  !.font = LoadFontCall(firstRun.fontFamily,
                                                        firstRun.fontWeight,
                                                        firstRun.fontStyle = "italic")],
                       Append(appended, Node("TEXT", <<"Text">>, t, tk.i, PathOf(tk))),
                       << >>, << >>)
           ELSE Commit(t, Advance(tk), appended, << >>, << >>)
    /\ UNCHANGED <<worker, geo, lf, hostFonts, ui, closed, page, selection>>

\* createTextForShape after `await loadFont(firstRun...)`
DefaultFontLoaded(t) ==
    /\ running = t
    /\ tasks[t].pc = "resume"
    /\ tasks[t].await = "defaultFont"
    /\ LET tk == tasks[t]
           el == CurrentElement(tk)
       IN  IF tk.font.status = "thrown"
           THEN Throw(t, tk, nodes)
           ELSE Commit(t,
                       [tk EXCEPT !.pc = "runs", !.r = 1, !.charIndex = 0, !.await = "",
                                  !.spans = << >>],
                       [nodes EXCEPT ![tk.node].fontName = tk.font.result,
                                     ![tk.node].characters = JoinRuns(el.runs)],
                       << >>, << >>)
    /\ UNCHANGED <<worker, geo, lf, hostFonts, ui, closed, page, selection>>

\* the head of the loop over runs: a zero-length run is skipped, the loop's
\* end appends the text node, any other run suspends in loadFont
StyleRun(t) ==
    /\ running = t
    /\ tasks[t].pc = "runs"
    /\ LET tk   == tasks[t]
           runs == CurrentElement(tk).runs
           run  == runs[tk.r]
           g       == Geometry(CurrentElement(tk), tk.scale)
           padding == Times(Num(4), tk.scale)
           textBox == [ x |-> Plus(g.x, padding), y |-> Plus(g.y, padding),
                        width  |-> MathMax(Num(1), Minus(g.width, Times(padding, Num(2)))),
                        height |-> MathMax(Num(1), Minus(g.height, Times(padding, Num(2)))) ]
       IN  IF tk.r > Len(runs)
           THEN Commit(t, Advance(tk),
                       AppendChild([nodes EXCEPT ![tk.node] = Boxed(@, textBox)],
                                   tk.frame, tk.node),
                       << >>, << >>)
           ELSE IF Len(run.text) = 0
           THEN Commit(t, [tk EXCEPT !.r = @ + 1], nodes, << >>, << >>)
           ELSE Commit(t,
                       [tk EXCEPT !.pc = "font", !.await = "runFont",
                                  !.spans = Append(@, [ run |-> tk.r,
                                                        startIndex |-> tk.charIndex,
                                                        endIndex |-> tk.charIndex
                                                                        + Len(run.text) ]),
                                  !.font = LoadFontCall(run.fontFamily, run.fontWeight,
                                                        run.fontStyle = "italic")],
                       nodes, << >>, << >>)
    /\ UNCHANGED <<worker, geo, lf, hostFonts, ui, closed, page, selection>>

\* textNode.setRangeTextDecoration: the later call replaces the earlier
Decoration(run) ==
    IF run.strikethrough THEN "STRIKETHROUGH"
    ELSE IF run.underline THEN "UNDERLINE"
    ELSE "NONE"

\* what the try of one run leaves on the text node's range when loadFont
\* returned: font name and size, then the fill, then the decorations; a
\* color the host rejects throws and the rest of the try is skipped
StyledRange(run, startIndex, endIndex, fontName) ==
    [ start |-> startIndex, end |-> endIndex, fontName |-> fontName,
      fill |-> IF ValidColor(run.color) THEN [ type |-> "SOLID", color |-> run.color ]
               ELSE [ type |-> "DEFAULT" ],
      decoration |-> IF ValidColor(run.color) THEN Decoration(run) ELSE "NONE" ]

\* RunFontLoaded with `charIndex = endIndex` as the try's last statement
RunFontLoaded_StayOnThrow(t) ==
    /\ running = t
    /\ tasks[t].pc = "resume"
    /\ tasks[t].await = "runFont"
    /\ LET tk         == tasks[t]
           run        == CurrentElement(tk).runs[tk.r]
           startIndex == tk.charIndex
           endIndex   == tk.charIndex + Len(run.text)
           threw      == tk.font.status = "thrown" \/ ~ValidColor(run.color)
           next       == [tk EXCEPT !.pc = "runs", !.r = @ + 1, !.await = "",
                                    !.charIndex = IF threw THEN @ ELSE endIndex]
       IN  Commit(t, next,
                  IF tk.font.status = "thrown" THEN nodes
                  ELSE [nodes EXCEPT ![tk.node].ranges =
                          Append(@, StyledRange(run, startIndex, endIndex,
                                                tk.font.result))],
                  IF threw THEN << ConsoleLine(tk, "Failed to apply text formatting:") >>
                  ELSE << >>,
                  << >>)
    /\ UNCHANGED <<worker, geo, lf, hostFonts, ui, closed, page, selection>>

\* the body of the try of one run after `await loadFont(run...)`, its catch,
\* and `charIndex = endIndex`
RunFontLoaded(t) ==
    /\ running = t
    /\ tasks[t].pc = "resume"
    /\ tasks[t].await = "runFont"
    /\ LET tk         == tasks[t]
           run        == CurrentElement(tk).runs[tk.r]
           startIndex == tk.charIndex
           endIndex   == tk.charIndex + Len(run.text)
           threw      == tk.font.status = "thrown" \/ ~ValidColor(run.color)
           next       == [tk EXCEPT !.pc = "runs", !.r = @ + 1, !.await = "",
                                    !.charIndex = endIndex]
       IN  Commit(t, next,
                  IF tk.font.status = "thrown" THEN nodes
                  ELSE [nodes EXCEPT ![tk.node].ranges =
                          Append(@, StyledRange(run, startIndex, endIndex,
                                                tk.font.result))],
                  IF threw THEN << ConsoleLine(tk, "Failed to apply text formatting:") >>
                  ELSE << >>,
                  << >>)
    /\ UNCHANGED <<worker, geo, lf, hostFonts, ui, closed, page, selection>>

\* createLine
CreateLine(t) ==
    /\ AtElement(t, "line")
    /\ LET tk      == tasks[t]
           id      == Len(nodes) + 1
           created == Append(nodes, Boxed(Node("LINE", <<"Line">>, t, tk.i, PathOf(tk)),
                                          Geometry(CurrentElement(tk), tk.scale)))
       IN  IF CurrentElement(tk).corrupt
           THEN Throw(t, tk, created)
           ELSE Commit(t, Advance(tk), AppendChild(created, tk.frame, id), << >>, << >>)
    /\ UNCHANGED <<worker, geo, lf, hostFonts, ui, closed, page, selection>>

\* MatchesDataUri with a regex that only asks for a payload
MatchesDataUri_AnyPayload(base64Data) == base64Data.payload # << >>

\* base64Data.match(/^data:([^;]+);base64,(.+)$/)
MatchesDataUri(base64Data) ==
    /\ base64Data.scheme = "data:"
    /\ base64Data.mime # ""
    /\ base64Data.enc = ";base64,"
    /\ base64Data.payload # << >>

Base64Chars ==
    { "A", "B", "C", "D", "E", "F", "G", "H", "I", "J", "K", "L", "M", "N", "O", "P",
      "Q", "R", "S", "T", "U", "V", "W", "X", "Y", "Z", "a", "b", "c", "d", "e", "f",
      "g", "h", "i", "j", "k", "l", "m", "n", "o", "p", "q", "r", "s", "t", "u", "v",
      "w", "x", "y", "z", "0", "1", "2", "3", "4", "5", "6", "7", "8", "9", "+", "/",
      "=" }

\* figma.base64Decode(base64Content) returns (it throws on any other character)
Base64Decodes(base64Content) ==
    \A n \in 1..Len(base64Content) : base64Content[n] \in Base64Chars

\* !base64Data: the key is not in the mapping, or its string is empty
NoImageData(imageData, imageUrl) ==
    \/ imageUrl \notin DOMAIN imageData
    \/ /\ imageData[imageUrl].scheme = "" /\ imageData[imageUrl].mime = ""
       /\ imageData[imageUrl].enc = "" /\ imageData[imageUrl].payload = << >>

\* createImage: nothing without imageUrl, else one rectangle: the gray
\* placeholder when there is no data, image-filled when the data is a data
\* URI that decodes, and the gray placeholder of the catch block otherwise
CreateImage(t) ==
    /\ AtElement(t, "image")
    /\ LET tk     == tasks[t]
           el     == CurrentElement(tk)
           id     == Len(nodes) + 1
           rect(name, fill) ==
               [Boxed(Node("RECTANGLE", <<name>>, t, tk.i, PathOf(tk)),
                      Geometry(el, tk.scale)) EXCEPT !.fill = fill]
           put(name, fill, logs) ==
               Commit(t, Advance(tk),
                      AppendChild(Append(nodes, rect(name, fill)), tk.frame, id),
                      logs, << >>)
       IN  IF el.imageUrl = ""
           THEN Commit(t, Advance(tk), nodes, << >>, << >>)
           ELSE IF NoImageData(tk.imageData, el.imageUrl)
           THEN put("Image (failed to load)", SolidFill(9, 9, 9), << >>)
           ELSE IF /\ MatchesDataUri(tk.imageData[el.imageUrl])
                   /\ Base64Decodes(tk.imageData[el.imageUrl].payload)
           THEN put("Image", ImageFill(tk.imageData[el.imageUrl].payload), << >>)
           ELSE put("Image (error)", SolidFill(9, 9, 9),
                    << ConsoleLine(tk, "Failed to create image:") >>)
    /\ UNCHANGED <<worker, geo, lf, hostFonts, ui, closed, page, selection>>

\* createTable up to loadFont('Arial', 400)
CreateTable(t) ==
    /\ AtElement(t, "table")
    /\ LET tk   == tasks[t]
           rows == CurrentElement(tk).rows
           tableFrame == Boxed(Node("FRAME", <<"Table">>, t, tk.i, PathOf(tk)),
                               Geometry(CurrentElement(tk), tk.scale))
       IN  IF Len(rows) = 0 \/ ColCount(rows) = 0
           THEN Commit(t, Advance(tk), nodes, << >>, << >>)
           ELSE Commit(t,
                       [tk EXCEPT !.pc = "font", !.await = "tableFont",
                                  !.node = Len(nodes) + 1,
                                  !.font = LoadFontCall("Arial", 400, FALSE)],
                       Append(nodes, tableFrame), << >>, << >>)
    /\ UNCHANGED <<worker, geo, lf, hostFonts, ui, closed, page, selection>>

\* the cells from the n-th on, row by row: a rectangle and, for a cell whose
\* text is not blank, a text node, each appended to the table's frame
RECURSIVE TableCells(_, _, _, _, _, _)
TableCells(nodes0, tableFrame, rows, fontName, n, meta0) ==
  CHOOSE out \in {
    LET colCount == ColCount(rows)
        row      == n \div colCount
        col      == n % colCount
        cellText == CellText(rows, row, col)
        box      == CellBox(meta.width, meta.height, Len(rows), colCount, row, col)
        cell     == [Boxed(Node("RECTANGLE", <<"Cell", row, col>>, meta.task, meta.slide,
                                meta.path), box)
                        EXCEPT !.fill = SolidFill(10, 10, 10)]
        textBox  == CellTextBox(box, meta.padding)
        textNode == [Boxed(Node("TEXT", <<"Cell text", row, col>>, meta.task, meta.slide,
                                meta.path), textBox)
                        EXCEPT !.fontName = fontName, !.characters = cellText]
        withCell == AppendChild(Append(ns, cell), tableFrame, Len(ns) + 1)
        withText == IF Trim(cellText) # << >>
                    THEN AppendChild(Append(withCell, textNode), tableFrame, Len(ns) + 2)
                    ELSE withCell
    IN  IF n >= Len(rows) * colCount THEN ns
        ELSE TableCells(withText, tableFrame, rows, fontName, n + 1, meta)
    : ns \in {nodes0}, meta \in {meta0} } : TRUE

\* createTable after `await loadFont('Arial', 400)`
TableFontLoaded(t) ==
    /\ running = t
    /\ tasks[t].pc = "resume"
    /\ tasks[t].await = "tableFont"
    /\ LET tk    == tasks[t]
           rows  == CurrentElement(tk).rows
           g     == Geometry(CurrentElement(tk), tk.scale)
           meta  == [ task |-> t, slide |-> tk.i, path |-> PathOf(tk),
                      width |-> g.width, height |-> g.height,
                      padding |-> Times(Num(4), tk.scale) ]
           cells == TableCells(nodes, tk.node, rows, tk.font.result, 0, meta)
       IN  IF tk.font.status = "thrown"
           THEN Throw(t, tk, nodes)
           ELSE Commit(t, Advance(tk), AppendChild(cells, tk.frame, tk.node), << >>, << >>)
    /\ UNCHANGED <<worker, geo, lf, hostFonts, ui, closed, page, selection>>

\* the elements els with the children of the element at path (from depth d
\* on) replaced
RECURSIVE WithChildrenAt(_, _, _, _)
WithChildrenAt(els, path, d, children) ==
    [els EXCEPT ![path[d]] =
        IF d = Len(path) THEN [@ EXCEPT !.children = children]
        ELSE [@ EXCEPT !.children = WithChildrenAt(@, path, d + 1, children)]]

\* CreateGroup that writes the offset position into the child itself
\* (child.x = x / scale + child.x) instead of into a copy
CreateGroup_InPlace(t) ==
    /\ AtElement(t, "group")
    /\ LET tk == tasks[t]
           el == CurrentElement(tk)
           g  == Geometry(el, tk.scale)
           childElements ==
               [ c \in 1..Len(el.children) |->
                    ChildElement(el.children[c], g.x, g.y, tk.scale) ]
       IN  IF Len(el.children) = 0
           THEN Commit(t, Advance(tk), nodes, << >>, << >>)
           ELSE Commit(t, [tk EXCEPT !.stack = Append(@, [els |-> childElements, k |-> 1]),
                                     !.presentation.slides[tk.i + 1].elements =
                                         WithChildrenAt(@, PathOf(tk), 1, childElements)],
                       nodes, << >>, << >>)
    /\ UNCHANGED <<worker, geo, lf, hostFonts, ui, closed, page, selection>>

\* createGroup: nothing for a group without children, else the loop over them
CreateGroup(t) ==
    /\ AtElement(t, "group")
    /\ LET tk == tasks[t]
           el == CurrentElement(tk)
           g  == Geometry(el, tk.scale)
           childElements ==
               [ c \in 1..Len(el.children) |->
                    ChildElement(el.children[c], g.x, g.y, tk.scale) ]
       IN  IF Len(el.children) = 0
           THEN Commit(t, Advance(tk), nodes, << >>, << >>)
           ELSE Commit(t, [tk EXCEPT !.stack = Append(@, [els |-> childElements, k |-> 1])],
                       nodes, << >>, << >>)
    /\ UNCHANGED <<worker, geo, lf, hostFonts, ui, closed, page, selection>>

\* createGroup's loop is over: createGroup and the createElement that called
\* it return
GroupEnd(t) ==
    /\ running = t
    /\ tasks[t].pc = "elements"
    /\ Len(tasks[t].stack) > 1
    /\ Top(tasks[t]).k > Len(Top(tasks[t]).els)
    /\ LET tk == tasks[t]
       IN  Commit(t, Advance([tk EXCEPT !.stack = SubSeq(@, 1, Len(@) - 1)]),
                  nodes, << >>, << >>)
    /\ UNCHANGED <<worker, geo, lf, hostFonts, ui, closed, page, selection>>

-----------------------------------------------------------------------------
(* figma.loadFontAsync settles for a suspended task                        *)

\* FontSettles on a host whose closePlugin leaves pending loads alive
FontSettles_IgnoreClose(t, ok) ==
    /\ running = 0
    /\ tasks[t].pc = "font"
    /\ HostAllows(AttemptFont(tasks[t].font), ok)
    /\ hostFonts' = HostLearn(AttemptFont(tasks[t].font), ok)
    /\ LET c == Settle(tasks[t].font, ok)
       IN  /\ tasks' = [tasks EXCEPT ![t].font = c,
                                     ![t].pc = IF c.status = "running" THEN "font"
                                               ELSE "resume"]
           /\ running' = IF c.status = "running" THEN 0 ELSE t
    /\ UNCHANGED <<worker, geo, lf, ui, closed, nodes, page, selection, uiEvents, console>>

\* the load a task is suspended at settles and the task goes on; once
\* figma.closePlugin() was called the host runs no callback of the plugin
FontSettles(t, ok) ==
    /\ running = 0
    /\ ~closed
    /\ tasks[t].pc = "font"
    /\ HostAllows(AttemptFont(tasks[t].font), ok)
    /\ hostFonts' = HostLearn(AttemptFont(tasks[t].font), ok)
    /\ LET c == Settle(tasks[t].font, ok)
       IN  /\ tasks' = [tasks EXCEPT ![t].font = c,
                                     ![t].pc = IF c.status = "running" THEN "font"
                                               ELSE "resume"]
           /\ running' = IF c.status = "running" THEN 0 ELSE t
    /\ UNCHANGED <<worker, geo, lf, ui, closed, nodes, page, selection, uiEvents, console>>

TaskLoadResolves == \E t \in DOMAIN tasks : FontSettles(t, TRUE)

TaskLoadRejects == \E t \in DOMAIN tasks : FontSettles(t, FALSE)

-----------------------------------------------------------------------------
(* Specification Spec: the UI sends one import-slides message; the host's  *)
(* scene calls succeed except resize on a corrupt element; font loads may  *)
(* fail.                                                                   *)

Init ==
    /\ \E p \in Presentations : ui = << ImportMessage(p) >>
    /\ tasks = << >>
    /\ running = 0
    /\ closed = FALSE
    /\ nodes = << >>
    /\ page = << >>
    /\ selection = << >>
    /\ uiEvents = << >>
    /\ console = << >>
    /\ hostFonts = << >>
    /\ worker = NoWorker
    /\ lf = NoCall
    /\ geo = NoGeo

Next ==
    \/ OnMessage
    \/ \E t \in DOMAIN tasks : ImportSlide(t)
    \/ \E t \in DOMAIN tasks : SlideEnd(t)
    \/ \E t \in DOMAIN tasks : ImportFinish(t)
    \/ \E t \in DOMAIN tasks : CreateShape(t)
    \/ \E t \in DOMAIN tasks : DefaultFontLoaded(t)
    \/ \E t \in DOMAIN tasks : StyleRun(t)
    \/ \E t \in DOMAIN tasks : RunFontLoaded(t)
    \/ \E t \in DOMAIN tasks : CreateLine(t)
    \/ \E t \in DOMAIN tasks : CreateImage(t)
    \/ \E t \in DOMAIN tasks : CreateTable(t)
    \/ \E t \in DOMAIN tasks : TableFontLoaded(t)
    \/ \E t \in DOMAIN tasks : CreateGroup(t)
    \/ \E t \in DOMAIN tasks : GroupEnd(t)
    \/ TaskLoadResolves
    \/ TaskLoadRejects

Spec == Init /\ [][Next]_vars

-----------------------------------------------------------------------------
(* Specification SpecHost: as Spec, and a scene call that importPresentation *)
(* makes itself may throw.  Nothing in importPresentation catches it: it   *)
(* reaches the handler's catch.                                            *)

\* figma.createFrame (after the progress event), appendChild of the slide's
\* frame, or scrollAndZoomIntoView (after the selection is set) throws
HostCallThrows(t) ==
    /\ running = t
    /\ LET tk  == tasks[t]
           out == HandlerCatch(tk)
           totalSlides == Len(tk.presentation.slides)
       IN  \/ /\ tk.pc = "slide" /\ tk.i < totalSlides
              /\ Commit(t, out.task, nodes, out.log,
                        << ProgressEvent(t, tk.i, totalSlides) >> \o out.events)
              /\ UNCHANGED selection
           \/ /\ tk.pc = "elements" /\ Len(tk.stack) = 1
              /\ Top(tk).k > Len(Top(tk).els)
              /\ Commit(t, out.task, nodes, out.log, out.events)
              /\ UNCHANGED selection
           \/ /\ tk.pc = "slide" /\ tk.i >= totalSlides
              /\ selection' = tk.createdFrames
              /\ Commit(t, out.task, nodes, out.log, out.events)
    /\ UNCHANGED <<worker, geo, lf, hostFonts, ui, closed, page>>

NextHost ==
    \/ Next
    \/ \E t \in DOMAIN tasks : HostCallThrows(t)

SpecHost == Init /\ [][NextHost]_vars

\* the engine runs the task that can run, the UI's message is delivered and
\* every pending font load settles
SpecHostFair == SpecHost /\ WF_vars(NextHost)

-----------------------------------------------------------------------------
(* Specification SpecUI: the UI sends an import-slides message and then a  *)
(* second message, cancel or another import-slides.  The host delivers a   *)
(* message when no plugin code is running: before the import has begun, at *)
(* one of its awaits of figma.loadFontAsync, or after it.                  *)

CancelMessage == [ type |-> "cancel" ]

\* the presentations of one slide
SingleSlide == { Presentation(<< s >>) : s \in Slides }

InitUI ==
    /\ \E p \in SingleSlide :
         \E second \in { CancelMessage } \cup { ImportMessage(q) : q \in SingleSlide } :
            ui = << ImportMessage(p), second >>
    /\ tasks = << >>
    /\ running = 0
    /\ closed = FALSE
    /\ nodes = << >>
    /\ page = << >>
    /\ selection = << >>
    /\ uiEvents = << >>
    /\ console = << >>
    /\ hostFonts = << >>
    /\ worker = NoWorker
    /\ lf = NoCall
    /\ geo = NoGeo

SpecUI == InitUI /\ [][Next]_vars

-----------------------------------------------------------------------------
(* The OAuth worker (cloudflare-worker.js).  Its fetch handler serves      *)
(* /callback, which stores the access token under the session id, and      *)
(* /token, which the plugin's UI polls.  Every request is an invocation of *)
(* the handler of its own; the invocations interleave at their awaits of   *)
(* the KV store, each of whose operations is atomic.                       *)

\* the session parameter of a request; "" : the parameter is missing
SessionIds == { "", "s1", "s2" }

\* tokens.access_token
AccessToken == "ya29.token"

\* env.TOKEN_STORE.get(key): the value, or null ("")
KvGet(store, key) == IF key \in DOMAIN store THEN store[key] ELSE ""

\* env.TOKEN_STORE.put(key, value, { expirationTtl })
KvPut(store, key, value) ==
    [ k \in DOMAIN store \cup {key} |-> IF k = key THEN value ELSE store[k] ]

\* env.TOKEN_STORE.delete(key)
KvDelete(store, key) == [ k \in DOMAIN store \ {key} |-> store[k] ]

\* a Response: the status and, of the JSON body or the page, what tells the
\* responses apart
Response(status, kind, accessToken) ==
    [ status |-> status, kind |-> kind, accessToken |-> accessToken ]

NoResponse == Response(0, "", "")

\* a /callback request after `await tokenResponse.json()`; exchange: Google
\* returned tokens ("ok") or tokens.error
CallbackRequest(sessionId, exchange) ==
    [ route |-> "/callback", session |-> sessionId, exchange |-> exchange,
      pc |-> "exchanged", token |-> "", response |-> NoResponse ]

\* a /token request
TokenRequest(sessionId) ==
    [ route |-> "/token", session |-> sessionId, exchange |-> "",
      pc |-> "start", token |-> "", response |-> NoResponse ]

\* the request's handler has returned
Respond(r, response) ==
    [worker EXCEPT !.reqs[r].pc = "done", !.reqs[r].response = response]

\* the handler has reached an await of the KV store inside its try
AtKvCall(req) ==
    \/ /\ req.route = "/callback" /\ req.pc = "exchanged"
       /\ req.exchange = "ok" /\ req.session # "" /\ worker.configured
    \/ /\ req.route = "/token" /\ req.pc = "start"
       /\ req.session # "" /\ worker.configured
    \/ /\ req.route = "/token" /\ req.pc = "delete"

\* /callback from `if (tokens.error)` on: the error page, or the put (if
\* there is a session id and a store) and the success page
CallbackStores(r) ==
    /\ worker.reqs[r].route = "/callback"
    /\ worker.reqs[r].pc = "exchanged"
    /\ LET req == worker.reqs[r]
       IN  IF req.exchange # "ok"
           THEN worker' = Respond(r, Response(200, "errorPage", ""))
           ELSE worker' =
                  [Respond(r, Response(200, "successPage", AccessToken))
                     EXCEPT !.store = IF req.session # "" /\ worker.configured
                                      THEN KvPut(@, req.session, AccessToken)
                                      ELSE @]
    /\ UNCHANGED <<geo, lf, hostFonts, ui, tasks, running, closed, nodes, page,
                   selection, uiEvents, console>>

\* /token up to the end of `await env.TOKEN_STORE.get(sessionId)`: the two
\* early error responses, the pending response when there is no token, or
\* the handler goes on to the delete
TokenGet(r) ==
    /\ worker.reqs[r].route = "/token"
    /\ worker.reqs[r].pc = "start"
    /\ LET req   == worker.reqs[r]
           token == KvGet(worker.store, req.session)
       IN  IF req.session = ""
           THEN worker' = Respond(r, Response(400, "Missing session ID", ""))
           ELSE IF ~worker.configured
           THEN worker' = Respond(r, Response(500, "KV storage not configured", ""))
           ELSE IF token # ""
           THEN worker' = [worker EXCEPT !.reqs[r].pc = "delete",
                                         !.reqs[r].token = token]
           ELSE worker' = Respond(r, Response(200, "pending", ""))
    /\ UNCHANGED <<geo, lf, hostFonts, ui, tasks, running, closed, nodes, page,
                   selection, uiEvents, console>>

\* /token from `await env.TOKEN_STORE.delete(sessionId)` on: the token is
\* deleted and returned
TokenDelete(r) ==
    /\ worker.reqs[r].route = "/token"
    /\ worker.reqs[r].pc = "delete"
    /\ worker' = [Respond(r, Response(200, "success", worker.reqs[r].token))
                    EXCEPT !.store = KvDelete(@, worker.reqs[r].session)]
    /\ UNCHANGED <<geo, lf, hostFonts, ui, tasks, running, closed, nodes, page,
                   selection, uiEvents, console>>

\* the KV call the handler awaits throws: the catch of the route answers
KvThrows(r) ==
    /\ AtKvCall(worker.reqs[r])
    /\ worker' = Respond(r, IF worker.reqs[r].route = "/callback"
                            THEN Response(200, "errorPage", "")
                            ELSE Response(500, "err.message", ""))
    /\ UNCHANGED <<geo, lf, hostFonts, ui, tasks, running, closed, nodes, page,
                   selection, uiEvents, console>>

\* expirationTtl: TOKEN_TTL seconds after the put the store drops the key
KvExpires(key) ==
    /\ key \in DOMAIN worker.store
    /\ worker' = [worker EXCEPT !.store = KvDelete(@, key)]
    /\ UNCHANGED <<geo, lf, hostFonts, ui, tasks, running, closed, nodes, page,
                   selection, uiEvents, console>>

-----------------------------------------------------------------------------
(* Specification SpecWorker: one /callback request and up to MaxPolls      *)
(* /token requests, for every choice of their session parameters, with    *)
(* and without a TOKEN_STORE binding.                                      *)

MaxPolls == 2

InitWorker ==
    /\ \E configured \in BOOLEAN, exchange \in { "ok", "error" },
          callbackSession \in SessionIds,
          polls \in SeqsUpTo(SessionIds, MaxPolls) :
            worker = [ configured |-> configured,
                       store |-> << >>,
                       reqs |-> << CallbackRequest(callbackSession, exchange) >>
                                \o [ k \in 1..Len(polls) |-> TokenRequest(polls[k]) ] ]
    /\ geo = NoGeo
    /\ lf = NoCall
    /\ hostFonts = << >>
    /\ ui = << >>
    /\ tasks = << >>
    /\ running = 0
    /\ closed = FALSE
    /\ nodes = << >>
    /\ page = << >>
    /\ selection = << >>
    /\ uiEvents = << >>
    /\ console = << >>

NextWorker ==
    \/ \E r \in DOMAIN worker.reqs : CallbackStores(r)
    \/ \E r \in DOMAIN worker.reqs : TokenGet(r)
    \/ \E r \in DOMAIN worker.reqs : TokenDelete(r)
    \/ \E r \in DOMAIN worker.reqs : KvThrows(r)
    \/ \E key \in SessionIds : KvExpires(key)

SpecWorker == InitWorker /\ [][NextWorker]_vars

-----------------------------------------------------------------------------
(* Properties of loadFont (checked under SpecFont / SpecFontFair).         *)

\* the fonts submitted to the host so far, in order: the settled attempts
\* and, while the call runs, the pending one
Submitted(c) ==
    LET settled == [k \in 1..Len(c.log) |-> c.log[k].font]
    IN  IF c.status = "running" THEN Append(settled, AttemptFont(c)) ELSE settled

\* C1: whenever loadFont returns, the returned (family, style) pair is the
\* argument of a load attempt that succeeded during that call; a pair whose
\* load failed or that was never attempted is not returned.
C1_ReturnsLoadedFont ==
    lf.status = "returned" =>
        /\ \E k \in 1..Len(lf.log) : lf.log[k].ok /\ lf.log[k].font = lf.result
        /\ ~ \E k \in 1..Len(lf.log) : ~lf.log[k].ok /\ lf.log[k].font = lf.result
        /\ hostFonts[lf.result]

\* an italic request whose exact font failed and whose weight-only font loaded
C1_Witness ==
    /\ lf.status = "returned"
    /\ lf.italic
    /\ lf.pc = "exactNoItalic"
    /\ Len(lf.log) = 2

\* C2: a failure reaches the caller only when the final attempt, Arial
\* Regular, fails; a failure of any earlier attempt is swallowed and followed
\* by the next attempt.
C2_OnlyLastFailurePropagates ==
    /\ lf.status = "thrown" =>
            /\ lf.log[Len(lf.log)].step = "arial"
            /\ lf.log[Len(lf.log)].font = FontName("Arial", "Regular")
            /\ ~lf.log[Len(lf.log)].ok
    /\ \A k \in 1..Len(lf.log) :
            (~lf.log[k].ok /\ lf.log[k].step # "arial") =>
                Len(Submitted(lf)) > k

\* the call threw after every attempt of the ladder failed
C2_Witness ==
    /\ lf.status = "thrown"
    /\ \A k \in 1..Len(lf.log) : ~lf.log[k].ok
    /\ Len(lf.log) >= 5

\* the ladder the claim describes, for a request
C3_ItalicRetry(family, weight, italic) ==
    IF italic THEN << FontName(family, IF weight >= 700 THEN "Bold" ELSE "Regular") >>
    ELSE << >>

C3_Rung(family, weight, italic) ==
    << FontName(family,
                CASE weight >= 700 /\ italic -> "Bold Italic"
                  [] weight >= 700 /\ ~italic -> "Bold"
                  [] weight < 700 /\ italic -> "Italic"
                  [] OTHER -> "Regular") >>
    \o C3_ItalicRetry(family, weight, italic)

C3_Category(family) ==
    IF family \in {"Courier New", "Roboto Mono"} THEN << "Roboto Mono", "Courier New" >>
    ELSE IF family \in {"Georgia", "Times New Roman", "Noto Serif"}
         THEN << "Georgia", "Times New Roman" >>
    ELSE << "Inter", "Roboto", "Arial" >>

RECURSIVE C3_Rungs(_, _, _)
C3_Rungs(families, weight, italic) ==
    IF families = << >> THEN << >>
    ELSE C3_Rung(Head(families), weight, italic)
            \o C3_Rungs(Tail(families), weight, italic)

C3_Ladder(family, weight, italic) ==
    C3_Rung(family, weight, italic)
    \o (IF family \in DOMAIN FONT_FALLBACKS
        THEN C3_Rung(FONT_FALLBACKS[family], weight, italic) ELSE << >>)
    \o C3_Rungs(C3_Category(family), weight, italic)
    \o << FontName("Inter", "Regular"), FontName("Arial", "Regular") >>

\* C3: the load attempts of one call are issued in the fixed ladder order, one
\* after the other: an attempt is issued only after the one before it failed,
\* and none is issued after one succeeded.
C3_SequentialLadder ==
    LET ladder == C3_Ladder(lf.family, lf.weight, lf.italic)
        issued == Submitted(lf)
    IN  /\ Len(issued) <= Len(ladder)
        /\ \A k \in 1..Len(issued) : issued[k] = ladder[k]
        /\ \A k \in 1..Len(lf.log) :
                lf.log[k].ok => (k = Len(lf.log) /\ lf.status = "returned")
        /\ lf.status = "thrown" => Len(issued) = Len(ladder)

\* a mapped family: the call got past the mapped rungs into the category list
C3_Witness ==
    /\ lf.family = "Merriweather"
    /\ lf.italic
    /\ lf.status = "returned"
    /\ lf.pc = "listNoItalic"
    /\ lf.idx = 2

\* C4: every call ends (returns or throws) once each load attempt settles,
\* after at most 12 attempts for an italic request and at most 7 otherwise.
C4_BoundedTermination ==
    /\ [](Len(Submitted(lf)) <= IF lf.italic THEN 12 ELSE 7)
    /\ <>(lf.status # "running")

\* the bounds are reached: 12 failed attempts (italic), 7 (not italic)
C4_Witness ==
    /\ lf.status = "thrown"
    /\ lf.italic
    /\ Len(lf.log) = 12

C4_WitnessPlain ==
    /\ lf.status = "thrown"
    /\ ~lf.italic
    /\ Len(lf.log) = 7

\* C5: when the load that succeeds is one of the requested family or of its
\* mapped family (ladder steps 1-3), the returned style is the one derived
\* from (weight >= 700, italic), or its weight-only form where italic was
\* dropped; with the two examples of the claim.
C5_StyleConsistent ==
    LET full == CASE lf.weight >= 700 /\ lf.italic -> "Bold Italic"
                  [] lf.weight >= 700 /\ ~lf.italic -> "Bold"
                  [] lf.weight < 700 /\ lf.italic -> "Italic"
                  [] OTHER -> "Regular"
        weightOnly == IF lf.weight >= 700 THEN "Bold" ELSE "Regular"
        known(family, style) == FontName(family, style) \in DOMAIN hostFonts
        has(family, style) == known(family, style) /\ hostFonts[FontName(family, style)]
        lacks(family, style) == known(family, style) /\ ~hostFonts[FontName(family, style)]
    IN  /\ (lf.status = "returned" /\ lf.pc = "exact") =>
                lf.result = FontName(lf.family, full)
        /\ (lf.status = "returned" /\ lf.pc = "exactNoItalic") =>
                lf.result = FontName(lf.family, weightOnly)
        /\ (lf.status = "returned" /\ lf.pc = "mapped") =>
                lf.result = FontName(FONT_FALLBACKS[lf.family], full)
        /\ (lf.status = "returned" /\ lf.pc = "mappedNoItalic") =>
                lf.result = FontName(FONT_FALLBACKS[lf.family], weightOnly)
        /\ ( /\ lf.status # "running"
             /\ lf.family = "Roboto" /\ lf.weight = 800 /\ ~lf.italic
             /\ lacks("Roboto", "Bold") /\ has("Inter", "Bold") ) =>
                (lf.status = "returned" /\ lf.result = FontName("Inter", "Bold"))
        /\ ( /\ lf.status # "running"
             /\ lf.family = "Helvetica" /\ lf.weight = 400 /\ ~lf.italic
             /\ lacks("Helvetica", "Regular") /\ has("Inter", "Regular") ) =>
                (lf.status = "returned" /\ lf.result = FontName("Inter", "Regular"))

\* the claim's first example: Roboto 800, Roboto Bold missing, Inter Bold there
C5_Witness ==
    /\ lf.family = "Roboto" /\ lf.weight = 800 /\ ~lf.italic
    /\ lf.status = "returned"
    /\ lf.pc = "mapped"
    /\ lf.result = FontName("Inter", "Bold")

-----------------------------------------------------------------------------
(* Properties of the import (checked under Spec / SpecHostFair).           *)

\* the events task t posted, in order
EventsOf(t) == SelectSeq(uiEvents, LAMBDA e : e.task = t)

ProgressOf(t) == SelectSeq(uiEvents, LAMBDA e : e.task = t /\ e.type = "progress")

\* the frames of task t on the page, in order
PageOf(t) == SelectSeq(page, LAMBDA id : nodes[id].task = t)

IsTerminal(e) == e.type \in {"complete", "error"}

HasTerminal(t) == \E k \in 1..Len(uiEvents) : uiEvents[k].task = t /\ IsTerminal(uiEvents[k])

SlidesOf(t) == tasks[t].presentation.slides

\* C6: for N >= 1 slides the import posts N progress events, creates N slide
\* frames and appends them to the page, one per slide even for a slide without
\* elements, and then posts one complete event with slideCount = N, its last
\* event.
C6_EventsAndFrames ==
    \A t \in DOMAIN tasks :
        LET N  == Len(SlidesOf(t))
            ev == EventsOf(t)
            pg == PageOf(t)
            frames == { id \in DOMAIN nodes :
                            nodes[id].task = t /\ nodes[id].type = "FRAME"
                                /\ nodes[id].top = 0 }
        IN  N >= 1 =>
              /\ tasks[t].pc # "done" => \A k \in 1..Len(ev) : ev[k].type = "progress"
              /\ tasks[t].pc = "done" =>
                    /\ Len(ev) = N + 1
                    /\ \A k \in 1..N : ev[k].type = "progress"
                    /\ ev[N + 1].type = "complete" /\ ev[N + 1].slideCount = N
                    /\ Cardinality(frames) = N
                    /\ Len(pg) = N
                    /\ \A k \in 1..N : pg[k] \in frames /\ nodes[pg[k]].slide = k - 1
                    /\ selection = pg

\* an import of two slides is over, the second slide had no elements
C6_Witness ==
    /\ Len(tasks) = 1
    /\ tasks[1].pc = "done"
    /\ Len(SlidesOf(1)) = 2
    /\ SlidesOf(1)[1].elements # << >>
    /\ SlidesOf(1)[2].elements = << >>
    /\ Len(page) = 2
    /\ nodes[page[2]].children = << >>

\* a / b < c / d for fractions with positive denominators
FracLess(p, q) == p.num * q.den < q.num * p.den

\* C7: the percents of an import's successive progress events are strictly
\* increasing, the one for slide i being 60 + (i / N) * 35, and all stay below
\* 60 + 35, the value the formula reaches at completion.
C7_PercentIncreasing ==
    \A t \in DOMAIN tasks :
        LET N  == Len(SlidesOf(t))
            pe == ProgressOf(t)
        IN  /\ \A a, b \in 1..Len(pe) : a < b => FracLess(pe[a].percent, pe[b].percent)
            /\ \A k \in 1..Len(pe) :
                    /\ pe[k].percent.num * N = (60 * N + (k - 1) * 35) * pe[k].percent.den
                    /\ FracLess(pe[k].percent, [num |-> 95, den |-> 1])

\* two progress events of one import
C7_Witness == Len(tasks) = 1 /\ Len(ProgressOf(1)) = 2

\* C8: an import-slides message the plugin handles leads to a terminal event,
\* complete or error, whatever the presentation and whatever the host calls
\* do, provided every font load settles.
C8_TerminalEvent == (Len(tasks) >= 1) ~> HasTerminal(1)

\* an import that a throwing host call ended: its terminal event is the error
\* event of the handler's catch, after a progress event
C8_Witness ==
    /\ Len(tasks) = 1
    /\ tasks[1].pc = "done"
    /\ Len(EventsOf(1)) >= 2
    /\ EventsOf(1)[Len(EventsOf(1))].type = "error"
    /\ nodes # << >>

\* C9: for a presentation without slides the import posts exactly one error
\* event, no progress and no complete event, and creates no node.
C9_ZeroSlides ==
    \A t \in DOMAIN tasks :
        Len(SlidesOf(t)) = 0 =>
            /\ tasks[t].pc = "done"
            /\ Len(EventsOf(t)) = 1
            /\ EventsOf(t)[1].type = "error"
            /\ ~ \E id \in DOMAIN nodes : nodes[id].task = t
            /\ PageOf(t) = << >>

C9_Witness ==
    /\ Len(tasks) = 1
    /\ Len(SlidesOf(1)) = 0
    /\ uiEvents = << ErrorEvent(1, "No slides found in presentation") >>

\* materializing the element throws whatever the host's fonts: the host
\* rejects its geometry, or it is a group with such an element inside
RECURSIVE Corrupt(_)
Corrupt(el) ==
    \/ el.type \in {"shape", "line"} /\ el.corrupt
    \/ el.type = "group" /\ \E c \in 1..Len(el.children) : Corrupt(el.children[c])

\* the nodes made for top-level element k of slide i that sit in the slide's frame
AttachedFor(t, i, k) ==
    { id \in DOMAIN nodes :
        /\ nodes[id].task = t /\ nodes[id].slide = i /\ nodes[id].top = k
        /\ \E f \in DOMAIN nodes :
              /\ nodes[f].type = "FRAME" /\ nodes[f].top = 0 /\ nodes[f].slide = i
              /\ nodes[f].task = t
              /\ \E c \in 1..Len(nodes[f].children) : nodes[f].children[c] = id }

\* C10: when materializing a top-level element throws, createElements logs it
\* and goes on: the later top-level elements of the slide are materialized,
\* the later slides are built, no error event is posted and the import ends
\* with complete.
C10_ThrowIsolated ==
    \A t \in DOMAIN tasks :
        \A i \in 1..Len(SlidesOf(t)) :
            LET els == SlidesOf(t)[i].elements
            IN  \A k \in 1..Len(els) :
                  (tasks[t].pc = "done" /\ Corrupt(els[k])) =>
                    /\ \E n \in 1..Len(console) :
                            console[n] = [task |-> t, slide |-> i - 1, top |-> k,
                                          message |-> "Failed to create element:"]
                    /\ \A j \in (k + 1)..Len(els) :
                            (els[j].type \in {"shape", "line"} /\ ~els[j].corrupt) =>
                                \E id \in AttachedFor(t, i - 1, j) :
                                    nodes[id].type =
                                        IF els[j].type = "line" THEN "LINE" ELSE "RECTANGLE"
                    /\ Len(PageOf(t)) = Len(SlidesOf(t))
                    /\ \A e \in 1..Len(EventsOf(t)) : EventsOf(t)[e].type # "error"
                    /\ EventsOf(t)[Len(EventsOf(t))].type = "complete"

\* an import is over whose first slide had a corrupt element before a sound
\* one: the error is logged, the sound element's node is in the frame and the
\* second slide was built
C10_Witness ==
    /\ Len(tasks) = 1
    /\ tasks[1].pc = "done"
    /\ Len(SlidesOf(1)) = 2
    /\ Len(SlidesOf(1)[1].elements) >= 2
    /\ Corrupt(SlidesOf(1)[1].elements[1])
    /\ SlidesOf(1)[1].elements[2] = ShapeEl(FALSE, << >>)
    /\ SlidesOf(1)[2].elements # << >>
    /\ console # << >>
    /\ AttachedFor(1, 0, 2) # {}
    /\ Len(page) = 2

\* the positions of the elements of a slide, the nested ones included
RECURSIVE PathsIn(_)
PathsIn(els) ==
    UNION { { <<k>> } \cup
            ( IF els[k].type = "group"
              THEN { <<k>> \o p : p \in PathsIn(els[k].children) }
              ELSE {} ) : k \in 1..Len(els) }

RECURSIVE ElementAt(_, _)
ElementAt(els, path) ==
    IF Len(path) = 1 THEN els[path[1]]
    ELSE ElementAt(els[path[1]].children, Tail(path))

\* the nodes made for the element at path of slide i that sit in the slide's frame
AttachedAt(t, i, path) ==
    { id \in DOMAIN nodes :
        /\ nodes[id].task = t /\ nodes[id].slide = i /\ nodes[id].path = path
        /\ \E f \in DOMAIN nodes :
              /\ nodes[f].type = "FRAME" /\ nodes[f].path = << >>
              /\ nodes[f].slide = i /\ nodes[f].task = t
              /\ \E c \in 1..Len(nodes[f].children) : nodes[f].children[c] = id }

\* C11: one element that throws never prevents the rest of the slide from
\* being built: once the import is over, every sound shape without text and
\* every sound line of every slide, top-level or nested in groups at any
\* depth, has its node in the slide's frame, whatever other element threw.
C11_RestOfSlideBuilt ==
    \A t \in DOMAIN tasks :
        tasks[t].pc = "done" =>
            \A i \in 1..Len(SlidesOf(t)) :
                LET els == SlidesOf(t)[i].elements
                IN  \A p \in PathsIn(els) :
                      LET el == ElementAt(els, p)
                      IN  ( /\ el.type \in {"shape", "line"}
                            /\ ~el.corrupt )
                          => \E id \in AttachedAt(t, i - 1, p) :
                                nodes[id].type =
                                    IF el.type = "line" THEN "LINE" ELSE "RECTANGLE"

\* C12: when loadFont throws (its last resort, Arial Regular, failed) while a
\* slide's text is materialized, the step that receives the exception ends
\* the import with an error event.
C12_FatalFontIsError ==
    [][ \A t \in DOMAIN tasks :
            ( /\ running = t
              /\ tasks[t].pc = "resume"
              /\ tasks[t].await \in {"defaultFont", "runFont"}
              /\ tasks[t].font.status = "thrown" )
            => /\ tasks'[t].pc = "done"
               /\ uiEvents' # << >>
               /\ uiEvents'[Len(uiEvents')].type = "error"
               /\ uiEvents'[Len(uiEvents')].task = t ]_vars

\* p stands before q in document order, or is q, or is a group q lies in
RECURSIVE PathLeq(_, _)
PathLeq(p, q) ==
    IF p = << >> THEN TRUE
    ELSE IF q = << >> THEN FALSE
    ELSE IF p[1] # q[1] THEN p[1] < q[1]
    ELSE PathLeq(Tail(p), Tail(q))

\* the frames the import made for its slides
SlideFrames(t) ==
    { f \in DOMAIN nodes :
        nodes[f].task = t /\ nodes[f].type = "FRAME" /\ nodes[f].path = << >> }

\* C13: node-append order is document order: an import's frames come onto
\* the page in slide order, and in a slide's frame a node made for an element
\* never stands after a node made for an element later in the document, the
\* children of groups counted in place, however the font loads went.
C13_AppendOrder ==
    \A t \in DOMAIN tasks :
        /\ \A a, b \in 1..Len(PageOf(t)) :
                a < b => /\ nodes[PageOf(t)[a]].slide < nodes[PageOf(t)[b]].slide
                         /\ PageOf(t)[a] < PageOf(t)[b]
        /\ \A f \in SlideFrames(t) :
                LET ch == nodes[f].children
                IN  /\ \A a \in 1..Len(ch) :
                            /\ nodes[ch[a]].task = t
                            /\ nodes[ch[a]].slide = nodes[f].slide
                            /\ nodes[ch[a]].path # << >>
                    /\ \A a, b \in 1..Len(ch) :
                            a < b => /\ PathLeq(nodes[ch[a]].path, nodes[ch[b]].path)
                                     /\ ch[a] # ch[b]

\* an import of two slides is over: the first frame holds a text node, put
\* there after its font loads, before the nodes of later elements; the second
\* holds the child of a group before later top-level nodes
C13_Witness ==
    /\ Len(tasks) = 1
    /\ tasks[1].pc = "done"
    /\ Len(page) = 2
    /\ LET one == nodes[page[1]].children
           two == nodes[page[2]].children
       IN  /\ \E a, b \in 1..Len(one) :
                a < b /\ nodes[one[a]].type = "TEXT" /\ nodes[one[b]].type = "FRAME"
           /\ \E a, b \in 1..Len(two) :
                a < b /\ Len(nodes[two[a]].path) = 2 /\ Len(nodes[two[b]].path) = 1

-----------------------------------------------------------------------------
(* Properties of the message handler (checked under SpecUI).               *)

C15_OneImportAtATime ==
    \A a, b \in DOMAIN tasks :
        (a < b /\ \E id \in DOMAIN nodes : nodes[id].task = b) => HasTerminal(a)

-----------------------------------------------------------------------------
(* Properties of createElement's geometry (checked under SpecGeom).        *)

\* C16: the width and the height createElement computes for an element are
\* both at least 1, for elements of every kind, whatever the authored width
\* and height and whatever the authored scale factors, zero and negative ones
\* included, for every positive fit scale.
C16_SizeAtLeastOne ==
    geo.pc = "returned" =>
        \A k \in 1..Len(geo.out) :
            /\ ~Less(geo.out[k].width, Num(1))
            /\ ~Less(geo.out[k].height, Num(1))

\* an image of negative width and zero scaleY, enlarged by the fit scale:
\* both sizes are the floor 1
C16_Witness ==
    /\ geo.pc = "returned"
    /\ geo.element.type = "image"
    /\ geo.element.width = Num(-2) /\ geo.element.scaleX = Num(1)
    /\ geo.element.height = Num(30) /\ geo.element.scaleY = Num(0)
    /\ geo.scale = Rat(8, 3)
    /\ geo.out[1].width = Num(1)
    /\ geo.out[1].height = Num(1)

\* the sum of the authored positions from the element down to the one at path
RECURSIVE C17_Sum(_, _)
C17_Sum(element, path) ==
    IF path = << >> THEN [x |-> element.x, y |-> element.y]
    ELSE LET below == C17_Sum(element.children[path[1]], Tail(path))
         IN  [x |-> Plus(element.x, below.x), y |-> Plus(element.y, below.y)]

\* C17: flattening a group applies the fit scale once at every depth: an
\* element nested in groups with origins g1..gk at local position c is
\* materialized at scale * (g1 + ... + gk + c) on each axis.
C17_ScaleOnce ==
    geo.pc = "returned" =>
        \A k \in 1..Len(geo.out) :
            LET sum == C17_Sum(geo.element, Tail(geo.out[k].path))
            IN  /\ geo.out[k].x = Times(geo.scale, sum.x)
                /\ geo.out[k].y = Times(geo.scale, sum.y)

\* the claim's example: scale 1, a group at (100, 50), its child shape at
\* local (10, 10) is materialized at (110, 60)
C17_Witness ==
    /\ geo.pc = "returned"
    /\ geo.scale = Num(1)
    /\ geo.element.type = "group"
    /\ geo.element.x = Num(100) /\ geo.element.y = Num(50)
    /\ geo.element.children[1] = PlacedAt(ShapeEl(FALSE, << >>), 10, 10)
    /\ geo.out[2].type = "shape"
    /\ geo.out[2].x = Num(110) /\ geo.out[2].y = Num(60)

\* two groups deep under the fit scale 8/3
C17_WitnessDeep ==
    /\ geo.pc = "returned"
    /\ geo.scale = Rat(8, 3)
    /\ \E k \in 1..Len(geo.out) :
            /\ Len(geo.out[k].path) = 3
            /\ geo.out[k].type = "shape"
            /\ geo.out[k].x = Times(Rat(8, 3), Num(100 - 7 + 10))

-----------------------------------------------------------------------------
(* Properties of the materializers (checked under Spec).                   *)

\* the image has a key, and the mapping has no string for it, or one that is
\* not data:<mime>;base64,<payload>, or one whose payload does not decode
C19_Degraded(el, imageData) ==
    /\ el.type = "image"
    /\ el.imageUrl # ""
    /\ \/ el.imageUrl \notin DOMAIN imageData
       \/ LET d == imageData[el.imageUrl]
          IN  \/ d.scheme # "data:" \/ d.mime = "" \/ d.enc # ";base64,"
              \/ d.payload = << >>
              \/ \E n \in 1..Len(d.payload) : d.payload[n] \notin Base64Chars

\* C19: for an image whose key is missing from the image data, or whose
\* string there is malformed or does not decode, createImage makes exactly
\* one node, a rectangle with the gray fill (0.9, 0.9, 0.9) at the element's
\* box, appends it to the slide's frame and does not throw; no image-filled
\* node is made for it.
C19_Placeholder ==
    \A t \in DOMAIN tasks :
        tasks[t].pc = "done" =>
            \A i \in 1..Len(SlidesOf(t)) :
                LET els == SlidesOf(t)[i].elements
                IN  \A k \in 1..Len(els) :
                      C19_Degraded(els[k], tasks[t].imageData) =>
                        LET made == { id \in DOMAIN nodes :
                                        /\ nodes[id].task = t
                                        /\ nodes[id].slide = i - 1
                                        /\ nodes[id].path = << k >> }
                        IN  /\ Cardinality(made) = 1
                            /\ made = AttachedAt(t, i - 1, << k >>)
                            /\ \A id \in made :
                                  /\ nodes[id].type = "RECTANGLE"
                                  /\ nodes[id].fill =
                                        [ type |-> "SOLID",
                                          color |-> [ r |-> Rat(9, 10), g |-> Rat(9, 10),
                                                      b |-> Rat(9, 10) ] ]
                                  /\ nodes[id].box = Geometry(els[k], tasks[t].scale)
                            /\ ~ \E n \in 1..Len(console) :
                                  /\ console[n].task = t /\ console[n].slide = i - 1
                                  /\ console[n].top = k
                                  /\ console[n].message = "Failed to create element:"

\* an import is over whose slide held images without data, with a string
\* that is no data URI and with a payload that does not decode: each has its
\* placeholder in the frame, next to the image-filled rectangle of a good one
C19_Witness ==
    /\ Len(tasks) = 1
    /\ tasks[1].pc = "done"
    /\ Len(page) = 1
    /\ LET ch == nodes[page[1]].children
           named(name) == { c \in 1..Len(ch) : nodes[ch[c]].name = << name >> }
       IN  /\ Cardinality(named("Image (failed to load)")) = 2
           /\ Cardinality(named("Image (error)")) = 2
           /\ Cardinality(named("Image")) = 1
           /\ \A c \in named("Image (error)") :
                nodes[ch[c]].box.width = Num(800) /\ nodes[ch[c]].box.x = Rat(80, 3)

\* the task is in createTextForShape's loop over runs
C20_InRunLoop(tk) ==
    \/ tk.pc = "runs"
    \/ tk.pc \in {"font", "resume"} /\ tk.await = "runFont"

\* the runs whose startIndex and endIndex the loop has computed so far
C20_Taken(tk) == IF tk.pc = "runs" THEN tk.r - 1 ELSE tk.r

\* C20: the character ranges createTextForShape computes for per-run styling
\* partition the concatenated text in run order: the first non-empty run
\* starts at 0, each next one where the one before ended, the last ends at
\* the length of the full text, each range holds its run's text, a
\* zero-length run gets none, also after the styling of an earlier run threw.
C20_RangesPartition ==
    \A t \in DOMAIN tasks :
        C20_InRunLoop(tasks[t]) =>
            LET tk       == tasks[t]
                runs     == CurrentElement(tk).runs
                fullText == nodes[tk.node].characters
                sp       == tk.spans
                nonEmpty == { n \in 1..C20_Taken(tk) : Len(runs[n].text) > 0 }
            IN  /\ Len(sp) = Cardinality(nonEmpty)
                /\ \A j \in 1..Len(sp) :
                      /\ sp[j].run \in nonEmpty
                      /\ Cardinality({ n \in nonEmpty : n < sp[j].run }) = j - 1
                      /\ sp[j].startIndex = IF j = 1 THEN 0 ELSE sp[j - 1].endIndex
                      /\ sp[j].endIndex = sp[j].startIndex + Len(runs[sp[j].run].text)
                      /\ sp[j].startIndex < sp[j].endIndex
                      /\ SubSeq(fullText, sp[j].startIndex + 1, sp[j].endIndex)
                            = runs[sp[j].run].text
                /\ (tk.pc = "runs" /\ tk.r > Len(runs)) =>
                      /\ sp # << >>
                      /\ sp[Len(sp)].endIndex = Len(fullText)
                /\ \A n \in 1..Len(nodes[tk.node].ranges) :
                      \E j \in 1..Len(sp) :
                          /\ nodes[tk.node].ranges[n].start = sp[j].startIndex
                          /\ nodes[tk.node].ranges[n].end = sp[j].endIndex

\* the loop is over for runs '', 'Hi', '??', '', '!': the styling of '??'
\* threw and was logged, the ranges are [0, 2), [2, 4) and [4, 5)
C20_Witness ==
    /\ Len(tasks) = 1
    /\ tasks[1].pc = "runs"
    /\ tasks[1].r > Len(CurrentElement(tasks[1]).runs)
    /\ Len(CurrentElement(tasks[1]).runs) = 5
    /\ \E n \in 1..Len(console) :
            console[n].message = "Failed to apply text formatting:"
    /\ tasks[1].spans = << [ run |-> 2, startIndex |-> 0, endIndex |-> 2 ],
                           [ run |-> 3, startIndex |-> 2, endIndex |-> 4 ],
                           [ run |-> 5, startIndex |-> 4, endIndex |-> 5 ] >>

-----------------------------------------------------------------------------
(* Properties of repeated imports (checked under SpecUI).                  *)

\* the number of nodes appended to each slide frame an import created
C21_PerSlideCounts(tk) ==
    [ k \in 1..Len(tk.createdFrames) |-> Len(nodes[tk.createdFrames[k]].children) ]

\* C21: two imports of the same presentation and image data on the same
\* host create the same number of slide frames and, slide by slide, append
\* the same number of nodes to the slide's frame.
C21_SameCounts ==
    \A t1, t2 \in DOMAIN tasks :
        ( /\ tasks[t1].pc = "done" /\ tasks[t2].pc = "done"
          /\ tasks[t1].presentation = tasks[t2].presentation
          /\ tasks[t1].imageData = tasks[t2].imageData )
        => /\ Len(tasks[t1].createdFrames) = Len(tasks[t2].createdFrames)
           /\ C21_PerSlideCounts(tasks[t1]) = C21_PerSlideCounts(tasks[t2])

\* both imports of the slide with text are over on a host that loads no
\* font: each lost its text node and its table and appended two rectangles
C21_Witness ==
    /\ Len(tasks) = 2
    /\ tasks[1].pc = "done" /\ tasks[2].pc = "done"
    /\ tasks[1].presentation = tasks[2].presentation
    /\ tasks[1].imageData = tasks[2].imageData
    /\ Len(page) = 2
    /\ \A t \in 1..2 :
          \E n \in 1..Len(console) :
              console[n].task = t /\ console[n].message = "Failed to create element:"
    /\ C21_PerSlideCounts(tasks[1]) = << 2 >>
    /\ C21_PerSlideCounts(tasks[2]) = << 2 >>

-----------------------------------------------------------------------------
(* Properties of the input (checked under SpecHost).                       *)

\* C22: the import does not change its input: the presentation (its slides
\* and their elements, the children of groups at any depth included) and
\* the image-data mapping a handler was called with stay as the UI sent
\* them through every step of the handler, up to its end with complete or
\* error; createElements loops over the slide's own elements, and
\* createGroup puts the offset positions into copies of the children.
C22_InputUnchanged ==
    [][ /\ \A t \in DOMAIN tasks :
              /\ tasks'[t].presentation = tasks[t].presentation
              /\ tasks'[t].imageData = tasks[t].imageData
        /\ \A t \in DOMAIN tasks' \ DOMAIN tasks :
              /\ tasks'[t].presentation = Head(ui).presentation
              /\ tasks'[t].imageData = Head(ui).imageData
        /\ \A t \in DOMAIN tasks' :
              tasks'[t].stack # << >> =>
                  tasks'[t].stack[1].els
                      = tasks'[t].presentation.slides[tasks'[t].i + 1].elements ]_vars

\* the import of the slide of groups is over: the rectangle made of a
\* group's child stands at the offset position (20 * scale) that createGroup
\* gave a copy, and the authored child still stands at x = 10
C22_Witness ==
    /\ Len(tasks) = 1
    /\ tasks[1].pc = "done"
    /\ Len(tasks[1].presentation.slides) = 1
    /\ \E n \in DOMAIN nodes :
          /\ nodes[n].path = << 2, 2 >>
          /\ nodes[n].box.x = Times(Num(20), tasks[1].scale)
    /\ tasks[1].presentation.slides[1].elements[2].children[2].x = Num(10)
    /\ \E n \in 1..Len(uiEvents) : uiEvents[n].type \in {"complete", "error"}

-----------------------------------------------------------------------------
(* Properties of per-run styling (checked under Spec).                     *)

\* the spans whose try block has been left
C23_Styled(tk) ==
    IF tk.pc = "runs" THEN 1..Len(tk.spans) ELSE 1..(Len(tk.spans) - 1)

\* C23: the property applications of one run are independent: whichever of
\* them throws, the others of the same run are still applied to the run's
\* range (an accepted color as the fill, the decoration the flags ask for),
\* and the runs after it are styled too.
C23_IndependentProperties ==
    \A t \in DOMAIN tasks :
        C20_InRunLoop(tasks[t]) =>
            LET tk   == tasks[t]
                runs == CurrentElement(tk).runs
            IN  \A j \in C23_Styled(tk) :
                    \E n \in 1..Len(nodes[tk.node].ranges) :
                        LET range == nodes[tk.node].ranges[n]
                            run   == runs[tk.spans[j].run]
                        IN  /\ range.start = tk.spans[j].startIndex
                            /\ range.end = tk.spans[j].endIndex
                            /\ ValidColor(run.color) =>
                                  range.fill = [ type |-> "SOLID", color |-> run.color ]
                            /\ run.strikethrough => range.decoration = "STRIKETHROUGH"
                            /\ (run.underline /\ ~run.strikethrough) =>
                                  range.decoration = "UNDERLINE"

-----------------------------------------------------------------------------
(* Properties of createShape and its text (checked under Spec).            *)

\* the element a node was made for
C24_ElementOf(n) ==
    ElementAt(tasks[nodes[n].task].presentation.slides[nodes[n].slide + 1].elements,
              nodes[n].path)

\* the nodes made for the same element as n
C24_Siblings(n) ==
    { m \in DOMAIN nodes :
        /\ nodes[m].task = nodes[n].task /\ nodes[m].slide = nodes[n].slide
        /\ nodes[m].path = nodes[n].path }

\* the concatenation of the runs is empty after trimming: nothing but blanks
C24_Blank(runs) ==
    \A r \in 1..Len(runs) : \A k \in 1..Len(runs[r].text) : runs[r].text[k] = " "

\* C24: a shape's text node exists only when the shape's node is already in
\* the container, and it is appended directly after the shape's node; for
\* a shape whose runs are blank after trimming the shape's node is appended
\* and no text node is created.
C24_ShapeThenText ==
    \A n \in DOMAIN nodes :
        /\ (nodes[n].type = "TEXT" /\ nodes[n].name = << "Text" >>) =>
              /\ ~C24_Blank(C24_ElementOf(n).runs)
              /\ \E r \in AttachedAt(nodes[n].task, nodes[n].slide, nodes[n].path) :
                    nodes[r].type = "RECTANGLE" /\ r < n
              /\ \A f \in DOMAIN nodes :
                    \A k \in 1..Len(nodes[f].children) :
                        nodes[f].children[k] = n =>
                            /\ k > 1
                            /\ nodes[f].children[k - 1] \in C24_Siblings(n)
                            /\ nodes[nodes[f].children[k - 1]].type = "RECTANGLE"
        /\ ( /\ nodes[n].type = "RECTANGLE" /\ nodes[n].name = << "Rectangle" >>
             /\ C24_Blank(C24_ElementOf(n).runs) ) =>
              /\ ~ \E m \in C24_Siblings(n) : nodes[m].type = "TEXT"
              /\ ~C24_ElementOf(n).corrupt =>
                    n \in AttachedAt(nodes[n].task, nodes[n].slide, nodes[n].path)

\* the slide with text is imported: its frame holds the first shape's
\* rectangle, that shape's text, the rectangle of the shape whose only run
\* is a blank, and the table
C24_Witness ==
    /\ Len(tasks) = 1
    /\ tasks[1].pc = "done"
    /\ \E f \in SlideFrames(1) :
          /\ [ k \in 1..Len(nodes[f].children) |-> nodes[nodes[f].children[k]].type ]
                = << "RECTANGLE", "TEXT", "RECTANGLE", "FRAME" >>
          /\ nodes[nodes[f].children[2]].path = << 1 >>
          /\ nodes[nodes[f].children[3]].path = << 2 >>

-----------------------------------------------------------------------------
(* Properties of the effective size (checked under SpecGeom).              *)

\* the element createElement was called with at path, below element
RECURSIVE C25_Element(_, _)
C25_Element(element, path) ==
    IF path = << >> THEN element
    ELSE C25_Element(element.children[path[1]], Tail(path))

\* the product, or 1 where the product is below 1
C25_Floored(product) == IF Less(product, Num(1)) THEN Num(1) ELSE product

\* C25: the effective width and the effective height of an element are each
\* max(1, raw * |scaleX| * |scaleY| * fitScale), raw being the authored
\* width (respectively height).
C25_BothFactors ==
    geo.pc = "returned" =>
        \A k \in 1..Len(geo.out) :
            LET el   == C25_Element(geo.element, Tail(geo.out[k].path))
                both == Times(MathAbs(el.scaleX), MathAbs(el.scaleY))
            IN  /\ geo.out[k].width
                      = C25_Floored(Times(Times(el.width, both), geo.scale))
                /\ geo.out[k].height
                      = C25_Floored(Times(Times(el.height, both), geo.scale))

\* C25 as amended: the effective width is max(1, width * |scaleX| *
\* fitScale) and the effective height is max(1, height * |scaleY| *
\* fitScale): each size takes the factor of its own axis only, and the
\* factors are multiplied before the floor of 1 is applied.
C25_OwnAxisFactor ==
    geo.pc = "returned" =>
        \A k \in 1..Len(geo.out) :
            LET el == C25_Element(geo.element, Tail(geo.out[k].path))
            IN  /\ geo.out[k].width
                      = C25_Floored(Times(Times(el.width, MathAbs(el.scaleX)), geo.scale))
                /\ geo.out[k].height
                      = C25_Floored(Times(Times(el.height, MathAbs(el.scaleY)), geo.scale))

\* a 30 x 30 shape with scaleX 1 and scaleY -2 at fit scale 1/2: 15 wide
\* (not 30) and 30 high
C25_Witness ==
    /\ geo.pc = "returned"
    /\ geo.element.type = "shape"
    /\ geo.element.width = Num(30) /\ geo.element.height = Num(30)
    /\ geo.element.scaleX = Num(1) /\ geo.element.scaleY = Num(-2)
    /\ geo.scale = Rat(1, 2)
    /\ geo.out[1].width = Num(15)
    /\ geo.out[1].height = Num(30)

\* C26: where the host fails nothing (the run's font loaded, its color is
\* accepted), the range of a run with underline carries the underline
\* decoration and the range of a run with strikethrough carries the
\* strikethrough decoration, a run with both flags included.  A range of the
\* host has one textDecoration value.
C26_BothDecorations ==
    \A t \in DOMAIN tasks :
        C20_InRunLoop(tasks[t]) =>
            LET tk   == tasks[t]
                runs == CurrentElement(tk).runs
            IN  \A n \in 1..Len(nodes[tk.node].ranges) :
                    \A j \in C23_Styled(tk) :
                        LET range == nodes[tk.node].ranges[n]
                            run   == runs[tk.spans[j].run]
                        IN  ( /\ range.start = tk.spans[j].startIndex
                              /\ range.end = tk.spans[j].endIndex
                              /\ ValidColor(run.color) )
                            => /\ run.underline => range.decoration = "UNDERLINE"
                               /\ run.strikethrough => range.decoration = "STRIKETHROUGH"

-----------------------------------------------------------------------------
(* Further properties of loadFont (checked under SpecFont).                *)

\* C27: within one loadFont call no (family, style) pair is submitted to
\* the host's loader more than once, whatever the requested family and
\* whatever the host's fonts.
C27_NoResubmission ==
    \A a, b \in 1..Len(Submitted(lf)) :
        a # b => Submitted(lf)[a] # Submitted(lf)[b]

\* the style is one of the bold ones
C28_Bold(style) == style \in { "Bold", "Bold Italic" }

\* the returned family is the requested one or its mapped fallback
C28_OwnFamily(c) ==
    \/ c.result.family = c.family
    \/ c.family \in DOMAIN FONT_FALLBACKS /\ c.result.family = FONT_FALLBACKS[c.family]

\* C28: whenever loadFont returns a font of the requested family or of its
\* mapped fallback family, the returned style is bold exactly if the
\* requested weight is at least 700, by whichever step the font was reached.
C28_BoldIffHeavy ==
    (lf.status = "returned" /\ C28_OwnFamily(lf)) =>
        (C28_Bold(lf.result.style) <=> lf.weight >= 700)

\* C28 as amended: a font of the requested family or of its mapped fallback
\* family that loadFont returns from a step before the last resort (the
\* exact family, the mapped family or the category list) is bold exactly if
\* the requested weight is at least 700; the last resort returns Inter
\* Regular or Arial Regular whatever the weight.
C28_BoldIffHeavyBeforeLastResort ==
    lf.status = "returned" =>
        /\ (C28_OwnFamily(lf) /\ lf.pc \notin { "inter", "arial" }) =>
                (C28_Bold(lf.result.style) <=> lf.weight >= 700)
        /\ lf.pc \in { "inter", "arial" } => lf.result.style = "Regular"

\* a bold italic request for a mapped family answered by the mapped family
\* without italic, after three rejections
C28_Witness ==
    /\ lf.status = "returned"
    /\ lf.family = "Times New Roman" /\ lf.weight = 700 /\ lf.italic
    /\ lf.pc = "mappedNoItalic"
    /\ Len(lf.log) = 4
    /\ lf.result = FontName("Georgia", "Bold")

-----------------------------------------------------------------------------
(* Properties of createTable's sizes (checked under SpecGeom).             *)

\* neither the width nor the height of the box is negative
C29_NonNegative(box) ==
    /\ ~Less(box.width, Num(0))
    /\ ~Less(box.height, Num(0))

\* C29: every width and height createTable passes to a resize call is
\* non-negative: those of the table's frame, of each cell rectangle and of
\* each cell text box, for every grid and every positive scale.
C29_TableSizesNonNegative ==
    geo.pc = "returned" =>
        \A k \in 1..Len(geo.out) :
            geo.out[k].type = "table" =>
                /\ C29_NonNegative(geo.out[k])
                /\ \A n \in 1..Len(geo.out[k].cells) :
                      C29_NonNegative(geo.out[k].cells[n])
                /\ \A n \in 1..Len(geo.out[k].cellTexts) :
                      C29_NonNegative(geo.out[k].cellTexts[n])

-----------------------------------------------------------------------------
(* Properties of the OAuth worker (checked under SpecWorker).              *)

\* the /token requests for the session that were answered with the token
C30_Received(session) ==
    { r \in DOMAIN worker.reqs :
        /\ worker.reqs[r].route = "/token" /\ worker.reqs[r].session = session
        /\ worker.reqs[r].pc = "done"
        /\ worker.reqs[r].response.kind = "success" }

\* C30: the token stored under a session id is handed out once: whatever
\* the interleaving of the /token polls for the session, at most one of them
\* is answered with the token, and every other one the store answered is
\* answered pending.
C30_OneTimeUse ==
    \A session \in SessionIds \ { "" } :
        /\ Cardinality(C30_Received(session)) <= 1
        /\ \A r \in DOMAIN worker.reqs :
              ( /\ worker.reqs[r].route = "/token" /\ worker.reqs[r].session = session
                /\ worker.reqs[r].pc = "done" /\ worker.reqs[r].response.status = 200
                /\ r \notin C30_Received(session) )
              => worker.reqs[r].response.kind = "pending"

====
